---- MODULE Spec2Model ----
(***************************************************************************)
(* Ghost-MCP: eleven independent tool functions, each wrapping one Ghost   *)
(* Admin API endpoint.  An invocation binds its arguments, answers the     *)
(* "__tool_info__" sentinel, validates, builds a token, creates a          *)
(* requests.Session whose adapter carries urllib3's Retry(total=3,         *)
(* backoff_factor=1, status_forcelist=[429,500,502,503,504]), sends its    *)
(* request(s) and turns the outcome into a JSON string.                    *)
(*                                                                         *)
(* The remote service and the network are the environment: every attempt  *)
(* of a request gets a nondeterministic outcome (connection failure, read  *)
(* failure, or a response with a status, an optional Retry-After header    *)
(* and a body).                                                            *)
(***************************************************************************)
EXTENDS Integers, Sequences, FiniteSets, TLC

VARIABLES
    clock,          \* the second int(time.time()) returned last (it never goes back)
    admin_secret,   \* the hex secret literal the deployment carries
    active,         \* the callers that invoke operations
    frame,          \* per caller: the locals of its current invocation
    builds,         \* the token constructions made on their own, oldest first
    remote,         \* the remote service's entity "id1": its version and accepted writes
    environ         \* os.environ: the value of GHOST_API_URL, if it is set

vars == <<clock, admin_secret, active, frame, builds, remote, environ>>

\* The largest second the model lets time.time() return.
MaxClock == 1

Procs == {1, 2}

-----------------------------------------------------------------------------
(* Python values, as far as the operations distinguish them.               *)

PyNone == [t |-> "None", v |-> ""]
\* A parameter the call does not pass at all.
Absent == [t |-> "absent", v |-> ""]
PyStr(s) == [t |-> "str", v |-> s]
\* An int, named by its decimal text.
PyInt(s) == [t |-> "int", v |-> s]
PyBool(s) == [t |-> "bool", v |-> s]
\* A list of tag objects, named by its content ("" is the empty list).
PyList(s) == [t |-> "list", v |-> s]
\* An object json.dumps cannot serialise (it is truthy and has a str()).
Obj == [t |-> "object", v |-> "<object>"]

Sentinel == PyStr("__tool_info__")

\* Python truthiness: `not x` is ~Truthy(x).
Truthy(x) ==
    ~ \/ x.t = "None"
      \/ (x.t = "str" /\ x.v = "")
      \/ (x.t = "list" /\ x.v = "")
      \/ (x.t = "bool" /\ x.v = "False")
      \/ (x.t = "int" /\ x.v = "0")

\* json.dumps succeeds on x.
Serialisable(x) == x.t # "object"

-----------------------------------------------------------------------------
(* The eleven operations.                                                  *)

ListOps == {"list_ghost_tags", "list_ghost_pages"}
CreateOps == {"create_ghost_post", "create_ghost_page", "create_ghost_tag"}
UpdateOps == {"update_ghost_post", "update_ghost_page", "update_ghost_tag"}
DeleteOps == {"delete_ghost_post", "delete_ghost_page", "delete_ghost_tag"}
Ops == ListOps \cup CreateOps \cup UpdateOps \cup DeleteOps

Kind(op) ==
    IF op \in ListOps THEN "list"
    ELSE IF op \in CreateOps THEN "create"
    ELSE IF op \in UpdateOps THEN "update"
    ELSE "delete"

\* The resource segment of the operation's URL, also the key of its bodies.
Resource(op) ==
    IF op \in {"list_ghost_tags", "create_ghost_tag", "update_ghost_tag", "delete_ghost_tag"}
    THEN "tags"
    ELSE IF op \in {"list_ghost_pages", "create_ghost_page",
                    "update_ghost_page", "delete_ghost_page"}
    THEN "pages"
    ELSE "posts"

\* The resource name used in the messages: "Post", "Page", "Tag".
ResName(op) ==
    IF Resource(op) = "tags" THEN "Tag"
    ELSE IF Resource(op) = "pages" THEN "Page"
    ELSE "Post"

\* The parameters of each def line, in order: name and default (Absent: none).
P(n, d) == [name |-> n, default |-> d]

Params(op) ==
    CASE op = "list_ghost_tags" ->
            <<P("page", PyInt("1")), P("limit", PyInt("15")), P("include", PyStr("count.posts"))>>
      [] op = "list_ghost_pages" ->
            <<P("page", PyInt("1")), P("limit", PyInt("15")), P("status", PyNone),
              P("include", PyStr("tags,authors"))>>
      [] op = "create_ghost_post" ->
            <<P("title", Absent), P("content", Absent), P("status", PyStr("draft")),
              P("tags", PyNone), P("featured", PyBool("False"))>>
      [] op = "create_ghost_page" ->
            <<P("title", Absent), P("content", Absent), P("status", PyStr("draft")),
              P("featured", PyBool("False"))>>
      [] op = "create_ghost_tag" ->
            <<P("name", Absent), P("description", PyNone), P("accent_color", PyNone),
              P("visibility", PyStr("public"))>>
      [] op = "update_ghost_post" ->
            <<P("post_id", Absent), P("title", PyNone), P("content", PyNone),
              P("status", PyNone), P("tags", PyNone), P("featured", PyNone)>>
      [] op = "update_ghost_page" ->
            <<P("page_id", Absent), P("title", PyNone), P("content", PyNone),
              P("status", PyNone), P("featured", PyNone)>>
      [] op = "update_ghost_tag" ->
            <<P("tag_id", Absent), P("name", PyNone), P("description", PyNone),
              P("accent_color", PyNone), P("visibility", PyNone)>>
      [] op = "delete_ghost_post" -> <<P("post_id", Absent)>>
      [] op = "delete_ghost_page" -> <<P("page_id", Absent)>>
      [] op = "delete_ghost_tag" -> <<P("tag_id", Absent)>>

ParamNames(op) == {Params(op)[i].name : i \in 1..Len(Params(op))}

\* The primary argument: the first parameter, the one the sentinel is read from.
Primary(op) == Params(op)[1].name

-----------------------------------------------------------------------------
(* The calls the callers make: each parameter from a small set of values   *)
(* that reaches every branch on it.                                        *)

IdArgs == {Absent, PyNone, PyStr(""), Sentinel, PyStr("id1")}

\* The optional arguments of a call, as tuples in parameter order: none passed,
\* some passed (with a falsy and an unserialisable value where the code
\* branches on them), and all passed.
PostPageOptions ==
    {<<Absent, Absent, Absent>>, <<PyStr("published"), Absent, Absent>>,
     <<Absent, PyList(""), Absent>>, <<Absent, PyList("news"), Absent>>,
     <<Absent, Absent, PyBool("True")>>,
     <<PyStr("published"), PyList("news"), PyBool("True")>>}

TagOptions ==
    {<<Absent, Absent, Absent>>, <<PyStr(""), Absent, Absent>>,
     <<PyStr("about"), Absent, Absent>>, <<Absent, PyStr("#0066cc"), Absent>>,
     <<Absent, Absent, PyStr("internal")>>,
     <<PyStr("about"), PyStr("#0066cc"), PyStr("internal")>>}

\* page, limit and include of a list: left out, passed, and passed as None or
\* as an empty text.
ListOptions ==
    {<<Absent, Absent, Absent>>, <<PyInt("2"), PyInt("5"), PyStr("tags")>>,
     <<Sentinel, Absent, Absent>>, <<Obj, Absent, Absent>>,
     <<PyNone, Absent, Absent>>, <<Absent, PyInt("5"), PyNone>>,
     <<PyInt("2"), Absent, PyStr("")>>}

UpdateOptions ==
    {<<Absent, Absent, Absent, Absent, Absent>>,
     <<PyStr(""), Absent, Absent, Absent, Absent>>,
     <<PyNone, PyStr(""), Absent, Absent, Absent>>,
     <<Obj, Absent, Absent, Absent, Absent>>,
     <<Absent, Absent, Absent, PyList(""), PyBool("False")>>,
     <<PyStr("T"), PyStr("<p>c</p>"), PyStr("published"), PyList("news"), PyBool("False")>>}

UpdateTagOptions ==
    {<<Absent, Absent, Absent, Absent>>,
     <<PyStr(""), Absent, Absent, Absent>>,
     <<PyNone, PyStr(""), Absent, Absent>>,
     <<Obj, Absent, Absent, Absent>>,
     <<Absent, PyStr("about"), Absent, PyStr("internal")>>,
     <<PyStr("T"), PyStr("about"), PyStr("#0066cc"), PyStr("internal")>>}

CallArgs(op) ==
    CASE op = "list_ghost_tags" ->
            {[page |-> x[1], limit |-> x[2], include |-> x[3]] : x \in ListOptions}
      [] op = "list_ghost_pages" ->
            {[page |-> x[1], limit |-> x[2], status |-> s, include |-> x[3]] :
                x \in ListOptions, s \in {Absent, PyStr(""), PyStr("draft")}}
      [] op = "create_ghost_post" ->
            {[title |-> t, content |-> c, status |-> x[1], tags |-> x[2],
              featured |-> x[3]] :
                t \in {Absent, PyStr(""), Sentinel, PyStr("Hello"), Obj},
                c \in {Absent, PyNone, PyStr(""), PyStr("<p>c</p>")},
                x \in PostPageOptions}
      [] op = "create_ghost_page" ->
            {[title |-> t, content |-> c, status |-> x[1], featured |-> x[3]] :
                t \in {Absent, PyStr(""), Sentinel, PyStr("Hello"), Obj},
                c \in {Absent, PyNone, PyStr(""), PyStr("<p>c</p>")},
                x \in {y \in PostPageOptions : y[2] = Absent}}
      [] op = "create_ghost_tag" ->
            {[name |-> n, description |-> x[1], accent_color |-> x[2],
              visibility |-> x[3]] :
                n \in {Absent, PyStr(""), Sentinel, PyStr("news"), Obj},
                x \in TagOptions}
      [] op = "update_ghost_post" ->
            {[post_id |-> i, title |-> x[1], content |-> x[2], status |-> x[3],
              tags |-> x[4], featured |-> x[5]] : i \in IdArgs, x \in UpdateOptions}
      [] op = "update_ghost_page" ->
            {[page_id |-> i, title |-> x[1], content |-> x[2], status |-> x[3],
              featured |-> x[5]] : i \in IdArgs, x \in UpdateOptions}
      [] op = "update_ghost_tag" ->
            {[tag_id |-> i, name |-> x[1], description |-> x[2], accent_color |-> x[3],
              visibility |-> x[4]] : i \in IdArgs, x \in UpdateTagOptions}
      [] op = "delete_ghost_post" -> {[post_id |-> i] : i \in IdArgs}
      [] op = "delete_ghost_page" -> {[page_id |-> i] : i \in IdArgs}
      [] op = "delete_ghost_tag" -> {[tag_id |-> i] : i \in IdArgs}

\* Python's call binding: a call that leaves out a parameter without a default
\* raises TypeError before the body runs.
BindFails(op, call) ==
    \E i \in 1..Len(Params(op)) :
        Params(op)[i].default = Absent /\ call[Params(op)[i].name] = Absent

\* The parameters as the body sees them: defaults stand in for what was left out.
Bind(op, call) ==
    [n \in ParamNames(op) |->
        IF call[n] = Absent
        THEN (CHOOSE d \in {Params(op)[i].default :
                               i \in {j \in 1..Len(Params(op)) : Params(op)[j].name = n}} : TRUE)
        ELSE call[n]]

-----------------------------------------------------------------------------
(* Sentinel and validation: what every operation does before its try block. *)

Description(op) ==
    CASE op = "list_ghost_tags" -> "Lists tags from Ghost blog with pagination"
      [] op = "list_ghost_pages" ->
            "Lists pages from Ghost blog with pagination and filtering options"
      [] op = "create_ghost_post" -> "Creates a new post in Ghost blog"
      [] op = "create_ghost_page" -> "Creates a new page in Ghost blog"
      [] op = "create_ghost_tag" -> "Creates a new tag in Ghost blog"
      [] op = "update_ghost_post" -> "Updates an existing post in Ghost blog"
      [] op = "update_ghost_page" -> "Updates an existing page in Ghost blog"
      [] op = "update_ghost_tag" -> "Updates an existing tag in Ghost blog"
      [] op = "delete_ghost_post" -> "Deletes a post from Ghost blog"
      [] op = "delete_ghost_page" -> "Deletes a page from Ghost blog"
      [] op = "delete_ghost_tag" -> "Deletes a tag from Ghost blog"

\* The descriptor object: name, description and the argument schema.
ToolInfo(op) ==
    [name |-> op,
     description |-> Description(op),
     args |-> [n \in ParamNames(op) |->
                [required |-> \E i \in 1..Len(Params(op)) :
                                 Params(op)[i].name = n /\ Params(op)[i].default = Absent]]]

\* `if <primary> == "__tool_info__"`.
IsToolInfo(op, a) == a[Primary(op)] = Sentinel

\* The message of the validation that rejects the arguments, "" when they pass.
ValidationError(op, a) ==
    CASE Kind(op) = "list" -> ""
      [] op \in {"create_ghost_post", "create_ghost_page"} ->
            IF ~Truthy(a.title) \/ ~Truthy(a.content)
            THEN "Title and content are required" ELSE ""
      [] op = "create_ghost_tag" ->
            IF ~Truthy(a.name) THEN "Tag name is required" ELSE ""
      [] OTHER ->
            IF ~Truthy(a[Primary(op)])
            THEN (IF Resource(op) = "posts" THEN "Post ID is required"
                  ELSE IF Resource(op) = "pages" THEN "Page ID is required"
                  ELSE "Tag ID is required")
            ELSE ""

-----------------------------------------------------------------------------
(* Credentials and the token.                                              *)

AdminId == "67b2d2824fdabf0001eb99ea"

\* The hex secret literal of the operations, digit by digit.
AdminSecret ==
    <<"1", "0", "0", "e", "d", "a", "1", "6", "3", "e", "9", "f", "e", "a", "6", "9",
    "0", "6", "f", "b", "d", "7", "d", "d", "c", "8", "4", "1", "8", "1", "2", "c", "7",
    "0", "5", "6", "1", "b", "1", "9", "a", "b", "2", "e", "6", "d", "7", "b", "3", "1",
    "f", "8", "4", "4", "f", "6", "c", "c", "d", "7", "b", "0", "5", "d">>

\* A secret that is not hex: the decode failure the token construction can meet.
MalformedSecret == <<"n", "o", "t", "h", "e", "x">>

HexDigits ==
    {"0", "1", "2", "3", "4", "5", "6", "7", "8", "9",
     "a", "b", "c", "d", "e", "f", "A", "B", "C", "D", "E", "F"}

\* bytes.fromhex(key_secret) succeeds.
HexValid(secret) ==
    Len(secret) % 2 = 0 /\ \A i \in 1..Len(secret) : secret[i] \in HexDigits

\* Seconds between iat and exp.
TokenLifetime == 300

\* hmac.new(key, message, sha256).digest(), kept symbolic: the digest is
\* determined by the key and the message and by nothing else.
HmacSha256(key, message) == [key |-> key, message |-> message]

\* create_token(key_id, key_secret) at clock second now (secret valid hex).
create_token(key_id, key_secret, now) ==
    LET header == [alg |-> "HS256", typ |-> "JWT", kid |-> key_id]
        payload == [iat |-> now, exp |-> now + TokenLifetime, aud |-> "/admin/"]
    IN  [header |-> header,
         payload |-> payload,
         signature |-> HmacSha256(key_secret, <<header, payload>>)]

\* The token construction written out inside the try block of the operations
\* that do not call create_token.
InlineToken(admin_id, secret, now) ==
    LET header == [alg |-> "HS256", typ |-> "JWT", kid |-> admin_id]
        payload == [iat |-> now, exp |-> now + TokenLifetime, aud |-> "/admin/"]
    IN  [header |-> header,
         payload |-> payload,
         signature |-> HmacSha256(secret, <<header, payload>>)]

UsesCreateToken(op) == op \in UpdateOps \cup {"delete_ghost_tag"}

\* The token the try block of op builds.
BuildToken(op, secret, now) ==
    IF UsesCreateToken(op)
    THEN create_token(AdminId, secret, now)
    ELSE InlineToken(AdminId, secret, now)

-----------------------------------------------------------------------------
(* Response bodies.  A body is undecodable text (also the empty body of a  *)
(* 204), a JSON array, or a JSON object holding a list of entities under   *)
(* one key ("" stands for an object without any resource key).             *)

Undecodable == [json |-> "undecodable", key |-> "", ents |-> <<>>]
JsonArray == [json |-> "array", key |-> "", ents |-> <<>>]
JsonObject(key, ents) == [json |-> "object", key |-> key, ents |-> ents]

Entity1 == [id |-> "id1", updated_at |-> "ts1"]
Entity2 == [id |-> "id2", updated_at |-> "ts2", html |-> "<p>h</p>"]
EntityNoStamp == [id |-> "id1", title |-> "untimed"]

\* The bodies the remote may answer with on a request for resource r.
Bodies(r) ==
    {Undecodable, JsonArray, JsonObject("", <<>>), JsonObject(r, <<>>),
     JsonObject(r, <<Entity1>>), JsonObject(r, <<Entity2, Entity1>>),
     JsonObject(r, <<EntityNoStamp>>)}

\* response.json() raises.
JsonRaises(body) == body.json = "undecodable"

\* `not current.get(key) or len(current[key]) == 0` on a decoded JSON object.
NoEntity(body, key) == body.key # key \/ Len(body.ents) = 0

\* current[key][0]["updated_at"] raises KeyError unless the first entity has it.
HasUpdatedAt(body) == "updated_at" \in DOMAIN body.ents[1]

\* updated_at = current[key][0]["updated_at"]
\* Variant: the timestamp of the last entity of the list.
UpdatedAtLast(body) == body.ents[Len(body.ents)].updated_at

UpdatedAt(body) == body.ents[1].updated_at

\* Variant: lexical and html of the first post are set to '' in every case.
WithLexicalAndHtmlBlank(body) ==
    IF body.json = "object" /\ body.key = "posts" /\ Len(body.ents) > 0
    THEN LET post == body.ents[1]
             filled == [k \in DOMAIN post \cup {"lexical", "html"} |->
                          IF k \in {"lexical", "html"} THEN "" ELSE post[k]]
         IN  [body EXCEPT !.ents = <<filled>> \o Tail(body.ents)]
    ELSE body

\* update_ghost_post's handling of the PUT response: the first post gets the
\* keys lexical and html, '' when the response lacks them.
WithLexicalAndHtml(body) ==
    IF body.json = "object" /\ body.key = "posts" /\ Len(body.ents) > 0
    THEN LET post == body.ents[1]
             filled == [k \in DOMAIN post \cup {"lexical", "html"} |->
                          IF k \in DOMAIN post THEN post[k] ELSE ""]
         IN  [body EXCEPT !.ents = <<filled>> \o Tail(body.ents)]
    ELSE body

-----------------------------------------------------------------------------
(* The retrying transport: requests' HTTPAdapter with urllib3's            *)
(* Retry(total=3, backoff_factor=1, status_forcelist=[429,500,502,503,504]) *)
(* and otherwise Retry's defaults.                                         *)

\* Retry(total=3)
RetryTotal == 3

\* status_forcelist
StatusForcelist == {429, 500, 502, 503, 504}

\* Retry's default allowed_methods: the idempotent methods, so not POST.
AllowedMethods == {"HEAD", "GET", "PUT", "DELETE", "OPTIONS", "TRACE"}

\* Retry.RETRY_AFTER_STATUS_CODES, honoured as respect_retry_after_header
\* keeps its default True.
RetryAfterStatusCodes == {413, 429, 503}

\* Variant: Retry(allowed_methods=None), every method is retried.
IsMethodRetryableAny(method) == TRUE

\* Retry._is_method_retryable
IsMethodRetryable(method) == method \in AllowedMethods

\* Retry.is_retry(method, status_code, has_retry_after), total being the
\* retries left.
is_retry(method, status, has_retry_after, total) ==
    /\ IsMethodRetryable(method)
    /\ \/ status \in StatusForcelist
       \/ (total # 0 /\ has_retry_after /\ status \in RetryAfterStatusCodes)

\* Retry.increment on an error: a read error of a method that is not
\* retryable is re-raised at once, any other error counts against total.
ErrorIsRetried(method, kind) ==
    kind = "connect_error" \/ IsMethodRetryable(method)

\* Retry.is_exhausted after increment took one from total.
\* Variant: the budget tested before the attempt is counted.
IsExhaustedLate(total) == total < 0

IsExhausted(total) == total - 1 < 0

\* Variant: only a server error raises.
RaisesForServerError(status) == 500 <= status /\ status < 600

\* Response.raise_for_status raises HTTPError.
RaisesForStatus(status) == 400 <= status /\ status < 600

Statuses == {200, 204, 404, 413, 429, 500, 502, 503, 504}

Resources == {"tags", "pages", "posts"}

\* The outcomes kept: a 204 has no body, an error status carries a text or
\* a JSON error object, a Retry-After header is told apart only where it
\* decides (a status Retry reads it for and status_forcelist lacks), and the
\* class of the decode error (a RequestException in requests >= 2.27, a plain
\* ValueError before) only where a body is decoded.
OutcomeOk(o) ==
    /\ (o.status = 204 => o.body = Undecodable)
    /\ (o.status >= 400 => o.body \in {Undecodable, JsonObject("", <<>>)})
    /\ (o.retry_after => o.status \in RetryAfterStatusCodes \ StatusForcelist)
    /\ (o.decode_error = "ValueError" => o.body = Undecodable /\ o.status = 200)

\* What one attempt of a request for resource r can meet: a connection
\* failure, a failure while reading the response, or a response.
Outcomes ==
    [r \in Resources |->
        {[kind |-> k, status |-> 0, retry_after |-> FALSE, body |-> Undecodable,
          decode_error |-> "JSONDecodeError"] : k \in {"connect_error", "read_error"}}
        \cup
        {o \in [kind : {"response"}, status : Statuses, retry_after : BOOLEAN,
                body : Bodies(r), decode_error : {"JSONDecodeError", "ValueError"}] :
            OutcomeOk(o)}]

-----------------------------------------------------------------------------
(* Exceptions and the JSON values the operations return.                   *)

\* An exception inside the try block: whether it is a
\* requests.exceptions.RequestException, and the response it carries.
Exc(cls, is_request_exception, response) ==
    [cls |-> cls, request_exception |-> is_request_exception, response |-> response]

HTTPError(o) == Exc("HTTPError", TRUE, <<[status |-> o.status, text |-> o.body]>>)
RetryError == Exc("RetryError", TRUE, <<>>)
ConnectionError == Exc("ConnectionError", TRUE, <<>>)
DecodeError(o) == Exc(o.decode_error, o.decode_error = "JSONDecodeError", <<>>)
Unexpected(cls) == Exc(cls, FALSE, <<>>)

\* {"error": <message>}; the message is kept in its parts.
ErrorEnvelope(prefix, desc, response) ==
    [error |-> [prefix |-> prefix, desc |-> desc, response |-> response]]

\* Variant: the message is the description alone.
HandleDescriptionOnly(e) ==
    IF e.request_exception
    THEN ErrorEnvelope("Network or HTTP error - ", e.cls, <<>>)
    ELSE ErrorEnvelope("Unexpected error - ", e.cls, <<>>)

\* Variant: one except clause for every exception.
HandleAsUnexpected(e) == ErrorEnvelope("Unexpected error - ", e.cls, <<>>)

\* The two except clauses.
Handle(e) ==
    IF e.request_exception
    THEN ErrorEnvelope("Network or HTTP error - ", e.cls, e.response)
    ELSE ErrorEnvelope("Unexpected error - ", e.cls, <<>>)

\* str() of a value inside an f-string.
Fmt(x) == IF x.t = "None" THEN "None" ELSE x.v

\* Variant: the message of update_ghost_post in every update.
NotFoundEnvelopeCopied(op, id) ==
    ErrorEnvelope("", "Post " \o Fmt(id) \o " not found", <<>>)

NotFoundEnvelope(op, id) ==
    ErrorEnvelope("", ResName(op) \o " " \o Fmt(id) \o " not found", <<>>)

\* Variant: the message without the id.
DeletedEnvelopeNoId(op, id) ==
    [success |-> TRUE, message |-> ResName(op) \o " deleted successfully"]

DeletedEnvelope(op, id) ==
    [success |-> TRUE, message |-> ResName(op) \o " " \o Fmt(id) \o " deleted successfully"]

IsErrorEnvelope(ret) == "error" \in DOMAIN ret
IsToolInfoValue(ret) == DOMAIN ret = {"name", "description", "args"}

\* The value of an invocation that has not returned one.
NoReturn == [pending |-> TRUE]

-----------------------------------------------------------------------------
(* Requests and their bodies.                                              *)

\* Variant: the same text with every trailing character kept.
RStripNothing(text, ch) == text

\* text.rstrip(ch)
RECURSIVE RStrip(_, _)
RStrip(text, ch) ==
    IF text # <<>> /\ text[Len(text)] = ch
    THEN RStrip(SubSeq(text, 1, Len(text) - 1), ch)
    ELSE text

\* os.environ without GHOST_API_URL, and with it set to a text.
Unset == <<>>
SetTo(text) == <<text>>

\* The second argument of os.environ.get("GHOST_API_URL", ...) in the operation.
Fallback(op) ==
    IF op \in {"create_ghost_page", "list_ghost_tags"} \cup DeleteOps
    THEN <<"h","t","t","p",":","/","/","1","9","2",".","1","6","8",".","5","0",".","8","0",
           ":","8","0","8","3">>
    ELSE <<"h","t","t","p","s",":","/","/","b","l","o","g",".","e","m","m","a","n","u",
           "e","l","u",".","c","o","m">>

\* os.environ.get("GHOST_API_URL", default)
os_environ_get(env, default) == IF env = Unset THEN default ELSE env[1]

\* Variant: the configured text taken as it is.
api_url_unstripped(op) == os_environ_get(environ, Fallback(op))

\* api_url = os.environ.get("GHOST_API_URL", <fallback>).rstrip("/")
api_url(op) == RStrip(os_environ_get(environ, Fallback(op)), "/")

\* f"{api_url}<rest>": a URL is kept as its base and what the operation
\* appends to it.
Url(op, rest) == [base |-> api_url(op), path |-> rest]

AdminPath(r) == "/ghost/api/admin/" \o r

\* The argument an entity key is filled from: content is sent as html.
ArgOf(key) == IF key = "html" THEN "content" ELSE key

\* The keys of update_fields (and tags after them) per update operation.
UpdateFields(op) ==
    IF op = "update_ghost_post" THEN {"title", "html", "status", "featured", "tags"}
    ELSE IF op = "update_ghost_page" THEN {"title", "html", "status", "featured"}
    ELSE {"name", "description", "accent_color", "visibility"}

\* Variant: a field is sent when its argument is true.
UpdateEntityOfTrue(op, a, updated_at) ==
    LET keys == {k \in UpdateFields(op) : Truthy(a[ArgOf(k)])}
    IN  [k \in keys \cup {"updated_at"} |->
            IF k = "updated_at" THEN PyStr(updated_at) ELSE a[ArgOf(k)]]

\* The entity of the PUT body: updated_at and every field whose argument is
\* not None.
UpdateEntity(op, a, updated_at) ==
    LET keys == {k \in UpdateFields(op) : a[ArgOf(k)] # PyNone}
    IN  [k \in keys \cup {"updated_at"} |->
            IF k = "updated_at" THEN PyStr(updated_at) ELSE a[ArgOf(k)]]

\* Variant: an optional field is sent whenever its argument is not None.
CreateEntityNotNone(op, a) ==
    LET keys ==
            IF op = "create_ghost_post"
            THEN {"title", "html", "status", "featured"}
                 \cup (IF a.tags # PyNone THEN {"tags"} ELSE {})
            ELSE IF op = "create_ghost_page"
            THEN {"title", "html", "status", "featured"}
            ELSE {"name", "visibility"}
                 \cup (IF a.description # PyNone THEN {"description"} ELSE {})
                 \cup (IF a.accent_color # PyNone THEN {"accent_color"} ELSE {})
    IN  [k \in keys |-> a[ArgOf(k)]]

\* The entity of the POST body.
CreateEntity(op, a) ==
    LET keys ==
            IF op = "create_ghost_post"
            THEN {"title", "html", "status", "featured"}
                 \cup (IF Truthy(a.tags) THEN {"tags"} ELSE {})
            ELSE IF op = "create_ghost_page"
            THEN {"title", "html", "status", "featured"}
            ELSE {"name", "visibility"}
                 \cup (IF Truthy(a.description) THEN {"description"} ELSE {})
                 \cup (IF Truthy(a.accent_color) THEN {"accent_color"} ELSE {})
    IN  [k \in keys |-> a[ArgOf(k)]]

\* The query parameters of a list request.
ListParams(op, a) ==
    LET keys == {"page", "limit", "include"}
                \cup (IF op = "list_ghost_pages" /\ Truthy(a.status) THEN {"filter"} ELSE {})
    IN  [k \in keys |-> IF k = "filter" THEN PyStr("status:" \o Fmt(a.status)) ELSE a[k]]

\* json.dumps(d) succeeds on a dict of values.
DumpsOk(d) == \A k \in DOMAIN d : Serialisable(d[k])

\* Variant: the entity wrapped under a fixed key.
WrapUnderData(op, entity) == [key |-> "data", entity |-> entity]

\* {resource: [entity]}
Wrap(op, entity) == [key |-> Resource(op), entity |-> entity]

\* Variant: a token built once, at second 0, sent with every request.
HeadersCached(token) ==
    [Authorization |-> [scheme |-> "Ghost", token |-> [token EXCEPT !.payload.iat = 0]],
     Accept |-> "application/json",
     ContentType |-> "application/json"]

Headers(token) ==
    [Authorization |-> [scheme |-> "Ghost", token |-> token],
     Accept |-> "application/json",
     ContentType |-> "application/json"]

\* A prepared request; json and params hold at most one value.
\* Variant: every parameter takes part in the query string, None as text.
QueryOfAll(params) ==
    IF params = <<>> THEN <<>>
    ELSE [k \in DOMAIN params[1] |-> Fmt(params[1][k])]

\* The query string requests encodes from params=: a parameter whose value is
\* None is left out, every other value goes in as its text.
Query(params) ==
    IF params = <<>> THEN <<>>
    ELSE [k \in {n \in DOMAIN params[1] : params[1][n] # PyNone} |-> Fmt(params[1][k])]

\* A prepared request; json and params hold at most one value, query is what
\* params becomes in the URL that is sent.
Request(method, url, token, json, params) ==
    [method |-> method, url |-> url, headers |-> Headers(token),
     json |-> json, params |-> params, query |-> Query(params)]

ListRequest(op, a, token) ==
    Request("GET", Url(op, AdminPath(Resource(op))), token, <<>>, <<ListParams(op, a)>>)

CreateUrl(op) ==
    IF op = "create_ghost_post" THEN AdminPath("posts") \o "/?source=html"
    ELSE AdminPath(Resource(op))

\* Variant: the create sent as an update.
CreateRequestAsPut(op, a, token) ==
    Request("PUT", Url(op, CreateUrl(op)), token, <<Wrap(op, CreateEntity(op, a))>>, <<>>)

CreateRequest(op, a, token) ==
    Request("POST", Url(op, CreateUrl(op)), token, <<Wrap(op, CreateEntity(op, a))>>, <<>>)

EntityUrl(op, a) == AdminPath(Resource(op)) \o "/" \o Fmt(a[Primary(op)])

DeleteRequest(op, a, token) == Request("DELETE", Url(op, EntityUrl(op, a)), token, <<>>, <<>>)

GetRequest(op, a, token) == Request("GET", Url(op, EntityUrl(op, a)), token, <<>>, <<>>)

PutUrl(op, a) ==
    IF op = "update_ghost_post" THEN EntityUrl(op, a) \o "/?source=html"
    ELSE EntityUrl(op, a)

\* Variant: the write sent without the timestamp that was read.
PutRequestUnstamped(op, a, token, updated_at) ==
    LET e == UpdateEntity(op, a, updated_at)
    IN  Request("PUT", Url(op, PutUrl(op, a)), token,
                <<Wrap(op, [k \in DOMAIN e \ {"updated_at"} |-> e[k]])>>, <<>>)

PutRequest(op, a, token, updated_at) ==
    Request("PUT", Url(op, PutUrl(op, a)), token,
            <<Wrap(op, UpdateEntity(op, a, updated_at))>>, <<>>)

-----------------------------------------------------------------------------
(* One invocation: the locals of the function, and where it stands.        *)
(*   pc       "idle" before the first call, "try" at the head of the try   *)
(*            block, "request" while a request is with the transport,      *)
(*            "returned" after the invocation ended                        *)
(*   token    the tokens built, session "unbound" | "open" | "closed",     *)
(*   req      the request being sent, total the retries left for it,       *)
(*   sent     every attempt put on the wire, last what the latest attempt  *)
(*            met (its kind, status and Retry-After header),               *)
(*   get_response, response   the responses the transport delivered: to   *)
(*            the GET of an update, and to every other request,            *)
(*   stdout   what was printed,                                            *)
(*   ret      the JSON value returned, raised the exception that left the  *)
(*            function instead ("" for none)                               *)

IdleFrame ==
    [op |-> "", args |-> [unbound |-> Absent], pc |-> "idle", tried |-> FALSE,
     token |-> <<>>, session |-> "unbound", closes |-> 0,
     req |-> <<>>, total |-> 0, sent |-> <<>>, last |-> <<>>,
     get_response |-> <<>>, response |-> <<>>,
     stdout |-> <<>>, ret |-> NoReturn, raised |-> ""]

\* `return json.dumps(value)` outside the try block.
ReturnEarly(f, value) == [f EXCEPT !.pc = "returned", !.ret = value]

\* Variant: the clause leaves the session as it is.
FinallyWithoutClose(f, value) ==
    IF f.session = "unbound"
    THEN [f EXCEPT !.pc = "returned", !.raised = "UnboundLocalError"]
    ELSE [f EXCEPT !.pc = "returned", !.ret = value]

\* The finally clause after a return inside try/except: session.close().  With
\* session not yet assigned the clause raises UnboundLocalError, which replaces
\* the return.
Finally(f, value) ==
    IF f.session = "unbound"
    THEN [f EXCEPT !.pc = "returned", !.raised = "UnboundLocalError"]
    ELSE [f EXCEPT !.pc = "returned", !.ret = value, !.session = "closed",
                   !.closes = @ + 1]

\* An exception inside the try block: the matching except clause, then finally.
Except(f, e) == Finally(f, Handle(e))

\* The function is entered with the call's arguments.
Enter(op, call) ==
    LET f == [IdleFrame EXCEPT !.op = op, !.args = call]
    IN  IF BindFails(op, call)
        THEN [f EXCEPT !.pc = "returned", !.raised = "TypeError"]
        ELSE LET a == Bind(op, call)
                 g == [f EXCEPT !.args = a]
             IN  IF IsToolInfo(op, a) THEN ReturnEarly(g, ToolInfo(op))
                 ELSE IF ValidationError(op, a) # ""
                 THEN ReturnEarly(g, ErrorEnvelope("", ValidationError(op, a), <<>>))
                 ELSE [g EXCEPT !.pc = "try"]

\* The try block up to its first request: token, session, headers, and the
\* request of a list, create or delete operation or the GET of an update.
\* Variant: only the address of the request is printed.
PrintUrl(r) == <<[url |-> r.url]>>

\* print("Making request to: ..."), print("Headers: ...")
PrintRequest(r) == <<[url |-> r.url], [headers |-> r.headers]>>

Setup(f, secret, now) ==
    LET op == f.op
        a == f.args
        f0 == [f EXCEPT !.tried = TRUE]
    IN  IF ~HexValid(secret) THEN Except(f0, Unexpected("ValueError"))
        ELSE
        LET token == BuildToken(op, secret, now)
            f1 == [f0 EXCEPT !.token = <<token>>, !.session = "open",
                             !.total = RetryTotal,
                             !.stdout = IF op = "delete_ghost_tag"
                                        THEN <<[token |-> token]>> ELSE <<>>]
            go(r, lines) == [f1 EXCEPT !.pc = "request", !.req = <<r>>,
                                       !.stdout = @ \o lines]
        IN  CASE Kind(op) = "list" ->
                    LET r == ListRequest(op, a, token)
                        shown == PrintRequest(r)
                    IN  IF DumpsOk(r.params[1])
                        THEN go(r, shown \o <<[params |-> r.params[1]]>>)
                        ELSE Except([f1 EXCEPT !.stdout = @ \o shown], Unexpected("TypeError"))
              [] Kind(op) = "create" ->
                    LET r == CreateRequest(op, a, token)
                        shown == PrintRequest(r)
                    IN  IF DumpsOk(r.json[1].entity)
                        THEN go(r, shown \o <<[payload |-> r.json[1]]>>)
                        ELSE Except([f1 EXCEPT !.stdout = @ \o shown], Unexpected("TypeError"))
              [] Kind(op) = "delete" ->
                    LET r == DeleteRequest(op, a, token)
                    IN  go(r, PrintRequest(r))
              [] Kind(op) = "update" ->
                    LET r == GetRequest(op, a, token)
                    IN  go(r, <<[url |-> r.url]>>)

\* The code after a request whose response the transport delivered.
Deliver(f, o) ==
    LET op == f.op
        a == f.args
        r == f.req[1]
        delivered == <<[status |-> o.status, body |-> o.body]>>
        f1 == IF Kind(op) = "update" /\ r.method = "GET"
              THEN [f EXCEPT !.get_response = delivered]
              ELSE [f EXCEPT !.response = delivered]
        \* delete_ghost_tag prints status and content before raise_for_status
        f2 == IF op = "delete_ghost_tag"
              THEN [f1 EXCEPT !.stdout = @ \o <<[status |-> o.status], [text |-> o.body]>>]
              ELSE f1
    IN  IF RaisesForStatus(o.status) THEN Except(f2, HTTPError(o))
        ELSE IF Kind(op) = "delete" /\ o.status = 204
        THEN Finally(f2, DeletedEnvelope(op, a[Primary(op)]))
        ELSE IF JsonRaises(o.body) THEN Except(f2, DecodeError(o))
        ELSE IF Kind(op) # "update" THEN Finally(f2, o.body)
        ELSE IF r.method = "PUT"
        THEN Finally(f2, IF op = "update_ghost_post" THEN WithLexicalAndHtml(o.body)
                         ELSE o.body)
        \* the GET of an update
        ELSE IF o.body.json # "object" THEN Except(f2, Unexpected("AttributeError"))
        ELSE IF NoEntity(o.body, Resource(op))
        THEN Finally(f2, NotFoundEnvelope(op, a[Primary(op)]))
        ELSE IF ~HasUpdatedAt(o.body)
        THEN Except(f2, Unexpected("KeyError"))
        ELSE LET put == PutRequest(op, a, f.token[1], UpdatedAt(o.body))
                 shown == PrintRequest(put)
                 f3 == [f2 EXCEPT !.stdout = @ \o shown]
             IN  IF DumpsOk(put.json[1].entity)
                 THEN [f3 EXCEPT !.req = <<put>>, !.total = RetryTotal,
                                 !.stdout = @ \o <<[payload |-> put.json[1]]>>]
                 ELSE Except(f3, Unexpected("TypeError"))

\* Variant: before a PUT is tried again the entity is read again.
AttemptRereading(f, o) ==
    LET r == f.req[1]
        f1 == [f EXCEPT !.sent = Append(@, r),
                        !.last = <<[kind |-> o.kind, status |-> o.status,
                                    retry_after |-> o.retry_after]>>]
        again == IF r.method = "PUT"
                 THEN [f1 EXCEPT !.total = @ - 1,
                                 !.req = <<GetRequest(f.op, f.args, f.token[1])>>]
                 ELSE [f1 EXCEPT !.total = @ - 1]
    IN  IF o.kind # "response"
        THEN IF ~ErrorIsRetried(r.method, o.kind) \/ IsExhausted(f.total)
             THEN Except(f1, ConnectionError)
             ELSE again
        ELSE IF is_retry(r.method, o.status, o.retry_after, f.total)
        THEN IF IsExhausted(f.total)
             THEN Except(f1, RetryError)
             ELSE again
        ELSE Deliver(f1, o)

\* One attempt of the request in flight, met by outcome o: urllib3 retries it
\* (the request stays in flight with one retry less), gives up, or delivers
\* the response to the operation.
Attempt(f, o) ==
    LET r == f.req[1]
        f1 == [f EXCEPT !.sent = Append(@, r),
                        !.last = <<[kind |-> o.kind, status |-> o.status,
                                    retry_after |-> o.retry_after]>>]
    IN  IF o.kind # "response"
        THEN IF ~ErrorIsRetried(r.method, o.kind) \/ IsExhausted(f.total)
             THEN Except(f1, ConnectionError)
             ELSE [f1 EXCEPT !.total = @ - 1]
        ELSE IF is_retry(r.method, o.status, o.retry_after, f.total)
        THEN IF IsExhausted(f.total)
             THEN Except(f1, RetryError)
             ELSE [f1 EXCEPT !.total = @ - 1]
        ELSE Deliver(f1, o)

-----------------------------------------------------------------------------
(* The state machine.                                                      *)

\* The remote service before any write of this model reached it.
FreshRemote == [version |-> 1, writes |-> <<>>]

TypeOK ==
    /\ clock \in 0..MaxClock
    /\ builds = <<>>
    /\ remote = FreshRemote
    /\ environ = Unset
    /\ admin_secret \in {AdminSecret, MalformedSecret}
    /\ active \subseteq Procs
    /\ DOMAIN frame = Procs

Init ==
    /\ clock = 0
    /\ admin_secret \in {AdminSecret, MalformedSecret}
    /\ active = {1}
    /\ frame = [p \in Procs |-> IdleFrame]
    /\ builds = <<>>
    /\ remote = FreshRemote
    /\ environ = Unset

\* A caller invokes an operation.
Call(p, op, call) ==
    /\ frame[p].pc = "idle"
    /\ frame' = [frame EXCEPT ![p] = Enter(op, call)]
    /\ UNCHANGED <<clock, admin_secret, active, builds, remote, environ>>

\* The invocation runs from the head of its try block to its first request;
\* time.time() returns now, the second of the last reading or a later one.
Prepare(p, now) ==
    /\ frame[p].pc = "try"
    /\ now >= clock
    /\ clock' = now
    /\ frame' = [frame EXCEPT ![p] = Setup(frame[p], admin_secret, now)]
    /\ UNCHANGED <<admin_secret, active, builds, remote, environ>>

\* The transport makes one attempt of the invocation's request.
Send(p, o) ==
    /\ frame[p].pc = "request"
    /\ frame' = [frame EXCEPT ![p] = Attempt(frame[p], o)]
    /\ UNCHANGED <<clock, admin_secret, active, builds, remote, environ>>

\* The caller has taken the result: the locals of the invocation are gone.
Forget(p) ==
    /\ frame[p].pc = "returned"
    /\ frame' = [frame EXCEPT ![p] = IdleFrame]
    /\ UNCHANGED <<clock, admin_secret, active, builds, remote, environ>>

Next ==
    \/ \E p \in active, op \in Ops : \E call \in CallArgs(op) : Call(p, op, call)
    \/ \E p \in active, now \in 0..MaxClock : Prepare(p, now)
    \/ \E p \in active : Forget(p)
    \/ \E p \in active : frame[p].pc = "request" /\
          \E o \in Outcomes[Resource(frame[p].op)] : Send(p, o)

Spec == Init /\ [][Next]_vars

-----------------------------------------------------------------------------
(* The operations as they run: a function that was entered goes on to its  *)
(* next step, and every attempt of a request ends, at the latest when the  *)
(* timeout of 30 seconds passes.                                           *)

\* The next step of caller p's invocation, within one second of the clock.
Run(p) ==
    \/ Prepare(p, clock)
    \/ frame[p].pc = "request" /\ \E o \in Outcomes[Resource(frame[p].op)] : Send(p, o)

LiveNext ==
    \/ \E p \in active, op \in Ops : \E call \in CallArgs(op) : Call(p, op, call)
    \/ \E p \in active : Run(p)
    \/ \E p \in active : Forget(p)

LiveSpec == Init /\ [][LiveNext]_vars /\ \A p \in Procs : WF_vars(Run(p))

-----------------------------------------------------------------------------
(* Two callers at once.  The operations share no state inside the process, *)
(* so what one invocation can do to another goes through the remote        *)
(* service.  The service keeps the entity "id1" under optimistic           *)
(* concurrency: a PUT is accepted when the updated_at it carries is the    *)
(* entity's current timestamp, an accepted PUT gives the entity a          *)
(* timestamp it never had before, and any other PUT is answered 409.       *)

\* The timestamps the entity goes through, one per version.
Stamps == <<"ts1", "ts2", "ts3", "ts4", "ts5">>

Current(rem) == Stamps[rem.version]

\* The entity as the service reports it under resource key r.
Stored(r, rem) == JsonObject(r, <<[id |-> "id1", updated_at |-> Current(rem)]>>)

\* The status of the service's answer to a PUT it rejects (UpdateCollisionError).
Collision == 409

\* The service accepts write q: the timestamp q names is the current one (a
\* write that names none has nothing to be compared).
Accepts(rem, q) ==
    LET e == q.json[1].entity
    IN  "updated_at" \notin DOMAIN e \/ e.updated_at = PyStr(Current(rem))

\* The service after request q of caller p reached it.
Handled(rem, p, q) ==
    IF q.method = "PUT" /\ Accepts(rem, q)
    THEN [version |-> rem.version + 1,
          writes |-> Append(rem.writes, [by |-> p, updated_at |-> Current(rem)])]
    ELSE rem

\* What an attempt of request q for resource r meets.  The network loses the
\* request ("connect_error": the service never sees it), a gateway answers
\* 503 in the service's place, the service handles the request and the
\* response is lost ("read_error"), or the response arrives.
Fates == {"connect_error", "unavailable", "read_error", "response"}

Reaches(fate) == fate \in {"read_error", "response"}

Met(rem, r, q, fate) ==
    LET o(kind, status, body) ==
            [kind |-> kind, status |-> status, retry_after |-> FALSE, body |-> body,
             decode_error |-> "JSONDecodeError"]
    IN  CASE fate = "connect_error" -> o("connect_error", 0, Undecodable)
          [] fate = "read_error" -> o("read_error", 0, Undecodable)
          [] fate = "unavailable" -> o("response", 503, Undecodable)
          [] fate = "response" ->
                IF q.method = "GET" THEN o("response", 200, Stored(r, rem))
                ELSE IF Accepts(rem, q)
                THEN o("response", 200, Stored(r, Handled(rem, 0, q)))
                ELSE o("response", Collision, JsonObject("", <<>>))

\* The calls of the concurrent callers: updates of the entity "id1" that pass
\* a new title (or name) among their fields.
Updates(op) ==
    {call \in CallArgs(op) :
        call[Primary(op)] = PyStr("id1") /\ call[Params(op)[2].name] = PyStr("T")}

\* A caller invokes an update of the entity the other caller works on, if any.
CallUpdate(p, op, call) ==
    /\ \A q \in Procs : frame[q].op \in {"", op}
    /\ Call(p, op, call)

\* One attempt of the caller's request, met by the network and the service.
Serve(p, fate) ==
    /\ frame[p].pc = "request"
    /\ LET q == frame[p].req[1]
           r == Resource(frame[p].op)
       IN  /\ frame' = [frame EXCEPT ![p] = Attempt(frame[p], Met(remote, r, q, fate))]
           /\ remote' = IF Reaches(fate) THEN Handled(remote, p, q) ELSE remote
    /\ UNCHANGED <<clock, admin_secret, active, builds, environ>>

ConcInit ==
    /\ clock = 0
    /\ admin_secret = AdminSecret
    /\ active = Procs
    /\ frame = [p \in Procs |-> IdleFrame]
    /\ builds = <<>>
    /\ remote = FreshRemote
    /\ environ = Unset

ConcNext ==
    \/ \E p \in active, op \in UpdateOps : \E call \in Updates(op) : CallUpdate(p, op, call)
    \* both invocations within one second of the clock
    \/ \E p \in active : Prepare(p, clock)
    \/ \E p \in active, fate \in Fates : Serve(p, fate)

ConcSpec == ConcInit /\ [][ConcNext]_vars

-----------------------------------------------------------------------------
(* The operations under a configured GHOST_API_URL.                        *)

\* The texts GHOST_API_URL is set to: one with trailing '/' characters, and the
\* empty text (the fallbacks are texts without a trailing '/').
EnvValues == {<<"h","t","t","p",":","/","/","g","/","/">>, <<>>}

UrlInit ==
    /\ clock = 0
    /\ admin_secret = AdminSecret
    /\ active = {1}
    /\ frame = [p \in Procs |-> IdleFrame]
    /\ builds = <<>>
    /\ remote = FreshRemote
    /\ environ \in {Unset} \cup {SetTo(text) : text \in EnvValues}

UrlSpec == UrlInit /\ [][Next]_vars

-----------------------------------------------------------------------------
(* The text of a token.  Text is a sequence of one-character strings,      *)
(* bytes are sequences of numbers 0..255.  The invocations above keep a    *)
(* token as the parts it is built from; here it is built character by      *)
(* character, as create_token and the inline construction build it.        *)

\* The ASCII characters 32..126, in order ("grave" stands for character 96,
\* which a string of this language cannot hold).
Printable ==
    <<" ", "!", "\"", "#", "$", "%", "&", "'", "(", ")", "*", "+", ",", "-", ".", "/",
      "0", "1", "2", "3", "4", "5", "6", "7", "8", "9", ":", ";", "<", "=", ">", "?",
      "@", "A", "B", "C", "D", "E", "F", "G", "H", "I", "J", "K", "L", "M", "N", "O",
      "P", "Q", "R", "S", "T", "U", "V", "W", "X", "Y", "Z", "[", "\\", "]", "^", "_",
      "grave", "a", "b", "c", "d", "e", "f", "g", "h", "i", "j", "k", "l", "m", "n", "o",
      "p", "q", "r", "s", "t", "u", "v", "w", "x", "y", "z", "{", "|", "}", "~">>

\* ord(c) of an ASCII character.
Ord == [c \in {Printable[i] : i \in 1..Len(Printable)} |->
          31 + CHOOSE i \in 1..Len(Printable) : Printable[i] = c]

\* str.encode() and bytes.decode('utf-8') of ASCII text.
StrEncode(text) == [i \in 1..Len(text) |-> Ord[text[i]]]
BytesDecode(bytes) == [i \in 1..Len(bytes) |-> Printable[bytes[i] - 31]]

\* The concatenation of seqs[lo..hi], by halves.
RECURSIVE FlattenRange(_, _, _)
FlattenRange(seqs, lo, hi) ==
    IF lo > hi THEN <<>>
    ELSE IF lo = hi THEN seqs[lo]
    ELSE LET mid == (lo + hi) \div 2
         IN  FlattenRange(seqs, lo, mid) \o FlattenRange(seqs, mid + 1, hi)

Flatten(seqs) == FlattenRange(seqs, 1, Len(seqs))

\* A Python object json.dumps is given: a str, an int, or a dict whose items
\* are kept in insertion order.
RECURSIVE DecimalDigits(_)
DecimalDigits(n) ==
    IF n < 10 THEN <<Printable[n + 17]>>
    ELSE DecimalDigits(n \div 10) \o <<Printable[(n % 10) + 17]>>

\* An int is kept as the decimal text json.dumps writes for it.
JStr(text) == [t |-> "str", v |-> text]
JInt(n) == [t |-> "int", v |-> DecimalDigits(n)]
Item(key, value) == [key |-> key, value |-> value]

\* json.dumps of a str: quotes around it, '"' and '\' escaped.
DumpsStr(text) ==
    <<"\"">>
    \o Flatten([i \in 1..Len(text) |->
                  IF text[i] \in {"\"", "\\"} THEN <<"\\", text[i]>> ELSE <<text[i]>>])
    \o <<"\"">>

DumpsValue(x) == IF x.t = "str" THEN DumpsStr(x.v) ELSE x.v

\* json.dumps(obj) of a dict, with the default separators ", " and ": ".
json_dumps(items) ==
    <<"{">>
    \o Flatten([i \in 1..Len(items) |->
                  (IF i > 1 THEN <<",", " ">> ELSE <<>>)
                  \o DumpsStr(items[i].key) \o <<":", " ">> \o DumpsValue(items[i].value)])
    \o <<"}">>

\* The alphabet of base64.urlsafe_b64encode.
UrlSafeAlphabet ==
    <<"A", "B", "C", "D", "E", "F", "G", "H", "I", "J", "K", "L", "M", "N", "O", "P",
      "Q", "R", "S", "T", "U", "V", "W", "X", "Y", "Z", "a", "b", "c", "d", "e", "f",
      "g", "h", "i", "j", "k", "l", "m", "n", "o", "p", "q", "r", "s", "t", "u", "v",
      "w", "x", "y", "z", "0", "1", "2", "3", "4", "5", "6", "7", "8", "9", "-", "_">>

\* The four characters of one group of up to three bytes, '=' for the
\* missing ones.
B64Group(g) ==
    LET A == UrlSafeAlphabet
        c1 == A[(g[1] \div 4) + 1]
    IN  IF Len(g) = 1
        THEN <<c1, A[(g[1] % 4) * 16 + 1], "=", "=">>
        ELSE IF Len(g) = 2
        THEN <<c1, A[(g[1] % 4) * 16 + (g[2] \div 16) + 1], A[(g[2] % 16) * 4 + 1], "=">>
        ELSE <<c1, A[(g[1] % 4) * 16 + (g[2] \div 16) + 1],
               A[(g[2] % 16) * 4 + (g[3] \div 64) + 1], A[(g[3] % 64) + 1]>>

\* base64.urlsafe_b64encode(bytes), padded with '='.
urlsafe_b64encode(bytes) ==
    LET n == Len(bytes)
        groups == (n + 2) \div 3
    IN  Flatten([k \in 1..groups |->
                   B64Group(SubSeq(bytes, 3 * k - 2, IF 3 * k < n THEN 3 * k ELSE n))])

\* b64encode(obj) of create_token.
b64encode(obj) == RStrip(urlsafe_b64encode(StrEncode(json_dumps(obj))), "=")

HexValue(c) ==
    IF Ord[c] <= Ord["9"] THEN Ord[c] - Ord["0"]
    ELSE IF Ord[c] <= Ord["F"] THEN Ord[c] - Ord["A"] + 10
    ELSE Ord[c] - Ord["a"] + 10

\* bytes.fromhex(secret) of a valid hex string.
fromhex(secret) ==
    [i \in 1..(Len(secret) \div 2) |->
        16 * HexValue(secret[2 * i - 1]) + HexValue(secret[2 * i])]

\* The sum of i * bytes[i] over lo..hi, by halves.
RECURSIVE WeightedSum(_, _, _)
WeightedSum(bytes, lo, hi) ==
    IF lo > hi THEN 0
    ELSE IF lo = hi THEN (lo * bytes[lo]) % 65536
    ELSE LET mid == (lo + hi) \div 2
         IN  (WeightedSum(bytes, lo, mid) + WeightedSum(bytes, mid + 1, hi)) % 65536

DigestSize == 32

\* hmac.new(key, message, hashlib.sha256).digest(): 32 bytes determined by
\* the key and the message.  SHA-256 itself is not computed; the stand-in
\* mixes every byte of both, so that a change of either changes the digest.
hmac_digest(key, message) ==
    LET k == WeightedSum(key, 1, Len(key))
        m == WeightedSum(message, 1, Len(message))
    IN  [i \in 1..DigestSize |->
            (k * (2 * i + 1) + m * (i + 2) + Len(key) + 7 * Len(message) + 31 * i) % 256]

\* The header and the payload dictionaries of a token.
TokenHeader(key_id) ==
    <<Item(<<"a", "l", "g">>, JStr(<<"H", "S", "2", "5", "6">>)),
      Item(<<"t", "y", "p">>, JStr(<<"J", "W", "T">>)),
      Item(<<"k", "i", "d">>, JStr(key_id))>>

TokenPayload(now) ==
    <<Item(<<"i", "a", "t">>, JInt(now)),
      Item(<<"e", "x", "p">>, JInt(now + TokenLifetime)),
      Item(<<"a", "u", "d">>, JStr(<<"/", "a", "d", "m", "i", "n", "/">>))>>

\* Variant: the signature taken over the JSON texts of the two segments.
message_of_json(header_encoded, payload_encoded, key_id, now) ==
    json_dumps(TokenHeader(key_id)) \o <<".">> \o json_dumps(TokenPayload(now))

\* message = f"{header_encoded}.{payload_encoded}"; the dictionaries the
\* segments were made of are at hand in the function, and not used.
message(header_encoded, payload_encoded, key_id, now) ==
    header_encoded \o <<".">> \o payload_encoded

\* The text create_token(key_id, key_secret) returns at second now.
create_token_text(key_id, key_secret, now) ==
    LET header_encoded == b64encode(TokenHeader(key_id))
        payload_encoded == b64encode(TokenPayload(now))
        key == fromhex(key_secret)
        signature == hmac_digest(key, StrEncode(message(header_encoded, payload_encoded,
                                                         key_id, now)))
        signature_encoded == RStrip(urlsafe_b64encode(signature), "=")
    IN  header_encoded \o <<".">> \o payload_encoded \o <<".">> \o signature_encoded

\* create_token of delete_ghost_post.py (the operation does not call it): the
\* same steps, the token bound to a name before it is returned.
create_token_text_delete_post(key_id, key_secret, now) ==
    LET header_encoded == b64encode(TokenHeader(key_id))
        payload_encoded == b64encode(TokenPayload(now))
        key == fromhex(key_secret)
        signature == hmac_digest(key, StrEncode(message(header_encoded, payload_encoded,
                                                         key_id, now)))
        signature_encoded == RStrip(urlsafe_b64encode(signature), "=")
        token == header_encoded \o <<".">> \o payload_encoded \o <<".">> \o signature_encoded
    IN  token

\* create_token of delete_ghost_tag.py: b64encode is the function of the
\* module, not a nested one.
create_token_text_delete_tag(key_id, key_secret, now) ==
    LET header == TokenHeader(key_id)
        payload == TokenPayload(now)
        header_encoded == b64encode(header)
        payload_encoded == b64encode(payload)
        key == fromhex(key_secret)
        signature == hmac_digest(key, StrEncode(message(header_encoded, payload_encoded,
                                                         key_id, now)))
        signature_encoded == RStrip(urlsafe_b64encode(signature), "=")
        token == header_encoded \o <<".">> \o payload_encoded \o <<".">> \o signature_encoded
    IN  token

\* Variant: the inline code keeps the padding of the signature.
InlineTokenTextPadded(admin_id, secret, now) ==
    LET header_encoded ==
            RStrip(urlsafe_b64encode(StrEncode(json_dumps(TokenHeader(admin_id)))), "=")
        payload_encoded ==
            RStrip(urlsafe_b64encode(StrEncode(json_dumps(TokenPayload(now)))), "=")
        key == fromhex(secret)
        signature == hmac_digest(key, StrEncode(message(header_encoded, payload_encoded,
                                                         admin_id, now)))
        signature_encoded == urlsafe_b64encode(signature)
    IN  header_encoded \o <<".">> \o payload_encoded \o <<".">> \o signature_encoded

\* The text of the token the try block of the other operations builds.
InlineTokenText(admin_id, secret, now) ==
    LET header_encoded ==
            RStrip(urlsafe_b64encode(StrEncode(json_dumps(TokenHeader(admin_id)))), "=")
        payload_encoded ==
            RStrip(urlsafe_b64encode(StrEncode(json_dumps(TokenPayload(now)))), "=")
        key == fromhex(secret)
        signature == hmac_digest(key, StrEncode(message(header_encoded, payload_encoded,
                                                         admin_id, now)))
        signature_encoded == RStrip(urlsafe_b64encode(signature), "=")
    IN  header_encoded \o <<".">> \o payload_encoded \o <<".">> \o signature_encoded

\* The places a token is built: create_token of the update operations, of
\* delete_ghost_post.py and of delete_ghost_tag.py, and the inline code.
Builders == {"create_token", "create_token_delete_post", "create_token_delete_tag", "inline"}

\* The key ids tried: the one of the operations, and one json.dumps escapes.
AdminIdText ==
    <<"6", "7", "b", "2", "d", "2", "8", "2", "4", "f", "d", "a",
      "b", "f", "0", "0", "0", "1", "e", "b", "9", "9", "e", "a">>
KeyIds == {AdminIdText, <<"k", "\"", "\\">>}

\* The secrets tried: the one of the operations, a short one, and two that
\* bytes.fromhex refuses (a letter that is no hex digit, an odd length).
Secrets == {AdminSecret, <<"0", "A">>, MalformedSecret, <<"a", "b", "c">>}

\* The seconds tried: the payload's text has a different length modulo 3 for
\* each, so that the encoding ends in none, one and two '='.
BuildTimes == {0, 700, 9700, 1700000000}

\* One construction: what was asked, and the token returned or the exception
\* raised.
Construct(builder, key_id, key_secret, now) ==
    [builder |-> builder, key_id |-> key_id, key_secret |-> key_secret, now |-> now,
     raised |-> IF HexValid(key_secret) THEN "" ELSE "ValueError",
     token |-> IF ~HexValid(key_secret) THEN <<>>
               ELSE IF builder = "create_token"
               THEN create_token_text(key_id, key_secret, now)
               ELSE IF builder = "create_token_delete_post"
               THEN create_token_text_delete_post(key_id, key_secret, now)
               ELSE IF builder = "create_token_delete_tag"
               THEN create_token_text_delete_tag(key_id, key_secret, now)
               ELSE InlineTokenText(key_id, key_secret, now)]

\* Every construction tried, computed once.
Constructions ==
    [b \in Builders |-> [k \in KeyIds |-> [s \in Secrets |-> [n \in BuildTimes |->
        Construct(b, k, s, n)]]]]

\* Variant: the construction prints the token it built.
BuildShown(builder, key_id, key_secret, now) ==
    /\ now >= clock
    /\ clock' = now
    /\ builds' = (IF builds = <<>> THEN <<>> ELSE <<builds[Len(builds)]>>)
                 \o <<Constructions[builder][key_id][key_secret][now]>>
    /\ frame' = [frame EXCEPT ![1].stdout =
                    Append(@, [token |-> Constructions[builder][key_id][key_secret][now].token])]
    /\ UNCHANGED <<admin_secret, active, remote, environ>>

\* A token is built on its own; time.time() returns now.  The last two
\* constructions are kept.
Build(builder, key_id, key_secret, now) ==
    /\ now >= clock
    /\ clock' = now
    /\ builds' = (IF builds = <<>> THEN <<>> ELSE <<builds[Len(builds)]>>)
                 \o <<Constructions[builder][key_id][key_secret][now]>>
    /\ UNCHANGED <<admin_secret, active, frame, remote, environ>>

TokenInit == Init /\ admin_secret = AdminSecret

TokenNext ==
    \E builder \in Builders, key_id \in KeyIds, key_secret \in Secrets, now \in BuildTimes :
        Build(builder, key_id, key_secret, now)

TokenSpec == TokenInit /\ [][TokenNext]_vars

-----------------------------------------------------------------------------
(* Reading a token back: what a verifier of the token does with its text.  *)

\* text.split(ch)
Split(text, ch) ==
    LET seps == {i \in 1..Len(text) : text[i] = ch}
        n == Cardinality(seps)
        sep(k) == CHOOSE i \in seps : Cardinality({j \in seps : j < i}) = k - 1
        first(k) == IF k = 1 THEN 1 ELSE sep(k - 1) + 1
        last(k) == IF k = n + 1 THEN Len(text) ELSE sep(k) - 1
    IN  [k \in 1..(n + 1) |-> SubSeq(text, first(k), last(k))]

UrlSafeChars == {UrlSafeAlphabet[i] : i \in 1..Len(UrlSafeAlphabet)}

\* The six bits a character of the alphabet stands for.
Sextet == [c \in UrlSafeChars |->
             (CHOOSE i \in 1..Len(UrlSafeAlphabet) : UrlSafeAlphabet[i] = c) - 1]

\* A segment without padding that some bytes encode to.
IsUnpaddedBase64Url(seg) ==
    /\ seg # <<>>
    /\ \A i \in 1..Len(seg) : seg[i] \in UrlSafeChars
    /\ Len(seg) % 4 # 1

\* The bytes an unpadded segment stands for.
UrlSafeDecode(seg) ==
    [j \in 1..((Len(seg) * 6) \div 8) |->
        LET q == ((j - 1) * 8) \div 6 + 1
            r == ((j - 1) * 8) % 6
            a == Sextet[seg[q]]
            b == Sextet[seg[q + 1]]
        IN  IF r = 0 THEN a * 4 + (b \div 16)
            ELSE IF r = 2 THEN (a % 16) * 16 + (b \div 4)
            ELSE (a % 4) * 64 + b]

IsAsciiText(bytes) == \A i \in 1..Len(bytes) : bytes[i] \in 32..126

DigitChars == {"0", "1", "2", "3", "4", "5", "6", "7", "8", "9"}

RECURSIVE ToNat(_)
ToNat(digits) ==
    IF digits = <<>> THEN 0
    ELSE 10 * ToNat(SubSeq(digits, 1, Len(digits) - 1)) + (Ord[digits[Len(digits)]] - Ord["0"])

\* A JSON reader for objects of strings and non-negative integers.
NoValue == [ok |-> FALSE, v |-> JStr(<<>>), next |-> 0]
NoObject == [ok |-> FALSE, items |-> <<>>]

RECURSIVE SkipSpaces(_, _)
SkipSpaces(text, i) ==
    IF i <= Len(text) /\ text[i] = " " THEN SkipSpaces(text, i + 1) ELSE i

\* The string whose opening quote is just before position i.
RECURSIVE ScanString(_, _, _)
ScanString(text, i, acc) ==
    IF i > Len(text) THEN NoValue
    ELSE IF text[i] = "\"" THEN [ok |-> TRUE, v |-> JStr(acc), next |-> i + 1]
    ELSE IF text[i] = "\\"
    THEN IF i + 1 <= Len(text) /\ text[i + 1] \in {"\"", "\\"}
         THEN ScanString(text, i + 2, Append(acc, text[i + 1]))
         ELSE NoValue
    ELSE ScanString(text, i + 1, Append(acc, text[i]))

RECURSIVE ScanDigits(_, _, _)
ScanDigits(text, i, acc) ==
    IF i <= Len(text) /\ text[i] \in DigitChars
    THEN ScanDigits(text, i + 1, Append(acc, text[i]))
    ELSE [ok |-> acc # <<>> /\ (Len(acc) > 1 => acc[1] # "0"),
          v |-> [t |-> "int", v |-> acc], next |-> i]

ScanValue(text, i) ==
    IF i > Len(text) THEN NoValue
    ELSE IF text[i] = "\"" THEN ScanString(text, i + 1, <<>>)
    ELSE ScanDigits(text, i, <<>>)

RECURSIVE ScanMembers(_, _, _)
ScanMembers(text, i, acc) ==
    LET k == ScanValue(text, SkipSpaces(text, i))
    IN  IF ~k.ok \/ k.v.t # "str" THEN NoObject
        ELSE
        LET c == SkipSpaces(text, k.next)
        IN  IF c > Len(text) \/ text[c] # ":" THEN NoObject
            ELSE
            LET v == ScanValue(text, SkipSpaces(text, c + 1))
                e == SkipSpaces(text, v.next)
            IN  IF ~v.ok \/ e > Len(text) THEN NoObject
                ELSE IF text[e] = ","
                THEN ScanMembers(text, e + 1, Append(acc, Item(k.v.v, v.v)))
                ELSE IF text[e] = "}" /\ SkipSpaces(text, e + 1) > Len(text)
                THEN [ok |-> TRUE, items |-> Append(acc, Item(k.v.v, v.v))]
                ELSE NoObject

\* json.loads(text) of an object.
json_loads(text) ==
    LET i == SkipSpaces(text, 1)
    IN  IF i > Len(text) \/ text[i] # "{" THEN NoObject
        ELSE ScanMembers(text, i + 1, <<>>)

\* The object a segment decodes to.
SegmentObject(seg) ==
    IF ~IsUnpaddedBase64Url(seg) \/ ~IsAsciiText(UrlSafeDecode(seg)) THEN NoObject
    ELSE json_loads(BytesDecode(UrlSafeDecode(seg)))

\* The object has exactly these keys with these values.
IsObject(obj, items) ==
    /\ obj.ok
    /\ Len(obj.items) = Cardinality(items)
    /\ {obj.items[i] : i \in 1..Len(obj.items)} = items

\* The value of an int member of an object, 0 - 1 when there is none.
IntMember(obj, key) ==
    LET at == {i \in 1..Len(obj.items) :
                 obj.items[i].key = key /\ obj.items[i].value.t = "int"}
    IN  IF obj.ok /\ at # {} THEN ToNat(obj.items[CHOOSE i \in at : TRUE].value.v) ELSE 0 - 1

Builds == {builds[i] : i \in 1..Len(builds)}

\* C11: every construction with a valid hex secret, by create_token and by
\* the inline code, returns three '.'-separated unpadded base64url segments;
\* the first decodes to {alg: "HS256", typ: "JWT", kid: key_id}, the second to
\* {iat: t, exp: t + 300, aud: "/admin/"}, t the second of the construction.
C11_TokenShape ==
    \A b \in Builds :
        HexValid(b.key_secret)
        => /\ b.raised = ""
           /\ LET segs == Split(b.token, ".")
                  header == SegmentObject(segs[1])
                  payload == SegmentObject(segs[2])
              IN  /\ Len(segs) = 3
                  /\ \A k \in 1..3 : IsUnpaddedBase64Url(segs[k])
                  /\ IsObject(header, {Item(<<"a", "l", "g">>, JStr(<<"H", "S", "2", "5", "6">>)),
                                       Item(<<"t", "y", "p">>, JStr(<<"J", "W", "T">>)),
                                       Item(<<"k", "i", "d">>, JStr(b.key_id))})
                  /\ IsObject(payload, {Item(<<"i", "a", "t">>, JInt(b.now)),
                                        Item(<<"e", "x", "p">>, JInt(b.now + 300)),
                                        Item(<<"a", "u", "d">>,
                                             JStr(<<"/", "a", "d", "m", "i", "n", "/">>))})
                  /\ IntMember(payload, <<"e", "x", "p">>)
                       - IntMember(payload, <<"i", "a", "t">>) = 300

\* Both builders have returned a token whose padded encoding would end in '='
\* and whose key id json.dumps escapes.
C11_Witness ==
    /\ Len(builds) = 2
    /\ builds[1].builder = "create_token" /\ builds[2].builder = "inline"
    /\ \A i \in 1..2 :
          /\ builds[i].raised = ""
          /\ builds[i].key_id = <<"k", "\"", "\\">>
          /\ builds[i].now = 1700000000

\* C12: for every token built, the HMAC of the text "<segment1>.<segment2>"
\* of that token under the bytes of the hex secret, base64url-encoded without
\* padding, is the token's third segment.
C12_SignatureRoundTrip ==
    \A b \in Builds :
        b.raised = ""
        => LET segs == Split(b.token, ".")
               signed == StrEncode(segs[1] \o <<".">> \o segs[2])
               digest == hmac_digest(fromhex(b.key_secret), signed)
           IN  /\ Len(segs) = 3
               /\ RStrip(urlsafe_b64encode(digest), "=") = segs[3]

\* create_token and the inline code have each signed a token with the secret
\* of the operations.
C12_Witness ==
    \E b1, b2 \in Builds :
        /\ b1.builder = "create_token" /\ b2.builder = "inline"
        /\ b1.raised = "" /\ b2.raised = ""
        /\ b1.key_secret = AdminSecret /\ b2.key_secret = AdminSecret
        /\ b1.key_id = AdminIdText /\ b2.key_id = AdminIdText

-----------------------------------------------------------------------------
(* Vocabulary of the properties.                                           *)

Frames == {frame[p] : p \in Procs}

Attempts(f) == 1..Len(f.sent)

\* The attempts made of the requests of method m.
AttemptsOf(f, m) == Cardinality({i \in Attempts(f) : f.sent[i].method = m})

SentMethods(f) == {f.sent[i].method : i \in Attempts(f)}

Success(status) == status \in 200..299

\* The request in flight is a re-send of the latest attempt.
Resending(f) ==
    f.pc = "request" /\ f.sent # <<>> /\ f.req[1] = f.sent[Len(f.sent)]

\* Nothing of the network was touched.
NoNetwork(f) == f.token = <<>> /\ f.session = "unbound" /\ f.sent = <<>>

\* "Post", "Page" or "Tag", read off the operation's name.
Named(op) ==
    IF op \in {"update_ghost_post", "delete_ghost_post", "create_ghost_post"} THEN "Post"
    ELSE IF op \in {"update_ghost_page", "delete_ghost_page", "create_ghost_page",
                    "list_ghost_pages"} THEN "Page"
    ELSE "Tag"

\* The parameters the def line gives no default.
Required(op) ==
    {Params(op)[i].name : i \in {j \in 1..Len(Params(op)) : Params(op)[j].default = Absent}}

-----------------------------------------------------------------------------
\* C1: in an update whose GET was answered 2xx with a JSON object that has no
\* entity under the resource key (the key is missing or its list is empty),
\* the invocation has returned {"error": "<Resource> <id> not found"} and no
\* PUT was sent.
C1_NotFoundWithoutPut ==
    \A f \in Frames :
        (/\ f.op \in UpdateOps
         /\ f.get_response # <<>>
         /\ Success(f.get_response[1].status)
         /\ f.get_response[1].body.json = "object"
         /\ \/ f.get_response[1].body.key # Resource(f.op)
            \/ f.get_response[1].body.ents = <<>>)
        => /\ f.pc = "returned"
           /\ f.raised = ""
           /\ f.ret = [error |-> [prefix |-> "",
                                  desc |-> Named(f.op) \o " " \o f.args[Primary(f.op)].v
                                           \o " not found",
                                  response |-> <<>>]]
           /\ "PUT" \notin SentMethods(f)

\* An update has returned after its GET found an empty list under the key.
C1_Witness ==
    \E f \in Frames :
        /\ f.op = "update_ghost_page" /\ f.pc = "returned"
        /\ f.get_response # <<>>
        /\ f.get_response[1].status = 200
        /\ f.get_response[1].body = JsonObject("pages", <<>>)

\* C2: every PUT on the wire belongs to an update whose GET was delivered with
\* a 2xx status before it, no GET follows it, and its body carries the
\* updated_at of the first entity of that GET's response.
C2_PutCarriesGetTimestamp ==
    \A f \in Frames :
        \A r \in {f.sent[i] : i \in Attempts(f)} \cup {f.req[i] : i \in 1..Len(f.req)} :
            r.method = "PUT"
            => /\ f.op \in UpdateOps
               /\ "GET" \in SentMethods(f)
               /\ \A i, j \in Attempts(f) :
                     (f.sent[i].method = "PUT" /\ f.sent[j].method = "GET") => j < i
               /\ f.get_response # <<>>
               /\ Success(f.get_response[1].status)
               /\ f.get_response[1].body.ents # <<>>
               /\ r.json[1].entity.updated_at
                    = PyStr(f.get_response[1].body.ents[1].updated_at)

\* A PUT is on the wire after a GET that returned two entities with different
\* timestamps.
C2_Witness ==
    \E f \in Frames :
        /\ "PUT" \in SentMethods(f)
        /\ Len(f.get_response[1].body.ents) = 2
        /\ f.get_response[1].body.ents[1].updated_at
             # f.get_response[1].body.ents[2].updated_at

\* C3: whatever the method, a request answered 429 or 503 that has been
\* attempted fewer than four times is sent again: the invocation has not ended.
C3_Resent429And503 ==
    \A f \in Frames :
        (/\ f.last # <<>>
         /\ f.last[1].kind = "response"
         /\ f.last[1].status \in {429, 503}
         /\ AttemptsOf(f, f.sent[Len(f.sent)].method) <= 3)
        => Resending(f)

\* C4 as stated: a request is sent again only after a transport failure or a
\* status of {429, 500, 502, 503, 504}, and never attempted more than 4 times.
C4_RetryOnlyForcelist ==
    \A f \in Frames :
        /\ Resending(f)
            => \/ f.last[1].kind \in {"connect_error", "read_error"}
               \/ f.last[1].status \in {429, 500, 502, 503, 504}
        /\ \A m \in {"GET", "POST", "PUT", "DELETE"} : AttemptsOf(f, m) <= 4

\* C4, amended: a request is sent again only after a transport failure, a
\* status of {429, 500, 502, 503, 504}, or a 413, 429 or 503 that carries a
\* Retry-After header; a response with any other status of 400 or more ends the
\* invocation with an error envelope; no request is attempted more than 4 times.
C4_RetryTriggers ==
    \A f \in Frames :
        /\ Resending(f)
            => \/ f.last[1].kind \in {"connect_error", "read_error"}
               \/ f.last[1].status \in {429, 500, 502, 503, 504}
               \/ (f.last[1].status \in {413, 429, 503} /\ f.last[1].retry_after)
        /\ \A r \in {f.get_response[i] : i \in 1..Len(f.get_response)}
                    \cup {f.response[i] : i \in 1..Len(f.response)} :
              r.status >= 400 => f.pc = "returned" /\ IsErrorEnvelope(f.ret)
        /\ \A m \in {"GET", "POST", "PUT", "DELETE"} : AttemptsOf(f, m) <= 4

\* A request is being sent for the fourth time, after a 413 with Retry-After.
C4_Witness ==
    \E f \in Frames :
        /\ Resending(f)
        /\ f.last[1].status = 413
        /\ Len(f.sent) = 3

\* C5: an invocation whose required argument is missing or empty (and whose
\* primary argument is not the sentinel) has returned an error envelope and
\* built no token, created no session, sent nothing.
C5_MissingArgumentEnvelope ==
    \A f \in Frames :
        (/\ f.pc # "idle"
         /\ f.args[Primary(f.op)] # Sentinel
         /\ \E n \in Required(f.op) : f.args[n] = Absent \/ ~Truthy(f.args[n]))
        => /\ f.pc = "returned"
           /\ IsErrorEnvelope(f.ret)
           /\ NoNetwork(f)

\* C6: an invocation whose primary argument is the sentinel has returned the
\* descriptor of its operation, whatever its other arguments, without network.
C6_SentinelDescriptor ==
    \A f \in Frames :
        (f.pc # "idle" /\ f.args[Primary(f.op)] = Sentinel)
        => /\ f.pc = "returned"
           /\ f.raised = ""
           /\ DOMAIN f.ret = {"name", "description", "args"}
           /\ f.ret.name = f.op
           /\ NoNetwork(f)

\* C7: a delete whose DELETE was answered 204 has returned
\* {"success": true, "message": "<Resource> <id> deleted successfully"} with
\* the caller's id, and a success object is returned by a delete answered 204
\* only.
C7_DeletedOn204 ==
    \A f \in Frames :
        /\ (Kind(f.op) = "delete" /\ f.response # <<>> /\ f.response[1].status = 204)
            => /\ f.pc = "returned"
               /\ f.raised = ""
               /\ f.ret = [success |-> TRUE,
                           message |-> Named(f.op) \o " " \o f.args[Primary(f.op)].v
                                       \o " deleted successfully"]
        /\ "success" \in DOMAIN f.ret
            => /\ f.op \in DeleteOps
               /\ f.response # <<>>
               /\ f.response[1].status = 204

\* A delete has returned after a 204.
C7_Witness ==
    \E f \in Frames :
        /\ f.op = "delete_ghost_tag" /\ f.pc = "returned"
        /\ f.response # <<>> /\ f.response[1].status = 204
        /\ f.args.tag_id = PyStr("id1")

C9_NoTokenReuse ==
    \A f \in Frames :
        \A i, j \in Attempts(f) :
            f.sent[i].method # f.sent[j].method
            => f.sent[i].headers.Authorization.token
                 # f.sent[j].headers.Authorization.token

\* C9, amended: an invocation builds at most one token, none is left over from
\* an earlier invocation, and every request and every retry of the invocation
\* carries that token, issued at the second read in the invocation.
C9_OneTokenPerInvocation ==
    \A f \in Frames :
        /\ Len(f.token) <= 1
        /\ f.pc \in {"idle", "try"} => f.token = <<>>
        /\ \A r \in {f.sent[i] : i \in Attempts(f)} \cup {f.req[i] : i \in 1..Len(f.req)} :
              /\ f.token # <<>>
              /\ r.headers.Authorization.token = f.token[1]
              /\ r.headers.Authorization.token.payload.iat <= clock

\* The GET and the PUT of an update are on the wire, in the second after the
\* first.
C9_Witness ==
    \E f \in Frames :
        /\ {"GET", "PUT"} \subseteq SentMethods(f)
        /\ f.token[1].payload.iat = 1

\* C10 as stated: an invocation that sends anything has built one token and
\* sends one logical request: every attempt is of the same request.
C10_SingleRequest ==
    \A f \in Frames :
        f.sent # <<>>
        => /\ Len(f.token) = 1
           /\ \A i, j \in Attempts(f) : f.sent[i] = f.sent[j]

\* C10, amended: an invocation builds at most one token, and none before its
\* try block; a list sends one GET, a create one POST, a delete one DELETE
\* (retries aside), and an update one GET followed by at most one PUT.
C10_OneTokenAtMostTwoRequests ==
    \A f \in Frames :
        /\ Len(f.token) <= 1
        /\ f.sent # <<>> => Len(f.token) = 1
        /\ ~f.tried => NoNetwork(f)
        /\ SentMethods(f) \subseteq
             (CASE Kind(f.op) = "list" -> {"GET"}
                [] Kind(f.op) = "create" -> {"POST"}
                [] Kind(f.op) = "delete" -> {"DELETE"}
                [] Kind(f.op) = "update" -> {"GET", "PUT"})
        /\ \A i, j \in Attempts(f) :
              f.sent[i].method = f.sent[j].method => f.sent[i] = f.sent[j]
        /\ \A i, j \in Attempts(f) :
              (f.sent[i].method = "GET" /\ f.sent[j].method = "PUT") => i < j

\* An update has returned after its two requests, each attempted twice.
C10_Witness ==
    \E f \in Frames :
        /\ f.pc = "returned" /\ f.op = "update_ghost_tag"
        /\ AttemptsOf(f, "GET") = 2 /\ AttemptsOf(f, "PUT") = 2

\* C13: an invocation that created a session has closed it exactly once when
\* it has returned, on every path, and holds it open until then; an invocation
\* that has not reached its try block holds no token, no session and no
\* request, whatever the invocations before it did.
C13_SessionClosedOnce ==
    \A f \in Frames :
        /\ (f.pc = "returned" /\ f.session # "unbound")
            => (f.session = "closed" /\ f.closes = 1)
        /\ f.pc = "request" => (f.session = "open" /\ f.closes = 0)
        /\ f.session = "unbound" => f.closes = 0
        /\ f.pc \in {"idle", "try"}
            => /\ NoNetwork(f)
               /\ f.closes = 0
               /\ f.req = <<>> /\ f.get_response = <<>> /\ f.response = <<>>
               /\ f.ret = NoReturn

\* An invocation has returned an error envelope after a transport failure,
\* its session closed once.
C13_Witness ==
    \E f \in Frames :
        /\ f.pc = "returned" /\ f.raised = ""
        /\ f.last # <<>> /\ f.last[1].kind = "connect_error"
        /\ IsErrorEnvelope(f.ret)
        /\ f.session = "closed" /\ f.closes = 1

\* C14: the entity of every PUT body has the key updated_at and one key per
\* optional argument of the update that is not None (html for content, the
\* argument's name for the others), holding the argument's value: '' and False
\* and [] are sent, None and omitted arguments are not.
C14_OnlyProvidedFields ==
    \A f \in Frames :
        \A r \in {f.sent[i] : i \in Attempts(f)} \cup {f.req[i] : i \in 1..Len(f.req)} :
            r.method = "PUT"
            => LET entity == r.json[1].entity
                   given == {n \in ParamNames(f.op) \ {Primary(f.op)} : f.args[n] # PyNone}
                   key(n) == IF n = "content" THEN "html" ELSE n
               IN  /\ r.json[1].key = Resource(f.op)
                   /\ DOMAIN entity = {"updated_at"} \cup {key(n) : n \in given}
                   /\ \A n \in given : entity[key(n)] = f.args[n]

\* A PUT of update_ghost_post is on the wire whose title was passed as None
\* and whose content is the empty string.
C14_Witness ==
    \E f \in Frames :
        /\ f.op = "update_ghost_post"
        /\ "PUT" \in SentMethods(f)
        /\ f.args.title = PyNone /\ f.args.content = PyStr("")
        /\ f.args.status = PyNone

\* The value returned is an error object, or the success object of a delete,
\* or the body of the response as it was decoded.
ErrorSuccessOrBody(f) ==
    \/ DOMAIN f.ret = {"error"}
    \/ (f.op \in DeleteOps /\ DOMAIN f.ret = {"success", "message"} /\ f.ret.success)
    \/ (f.response # <<>> /\ f.ret = f.response[1].body)

\* C15 as stated: every value returned is an error object, the success object
\* of a delete, or the decoded body of the response, unchanged.
C15_BodyUnchanged ==
    \A f \in Frames :
        (f.pc = "returned" /\ f.raised = "") => ErrorSuccessOrBody(f)

\* C15, amended: every value returned is an error object, the success object
\* of a delete, the descriptor of the operation, or the decoded body of the
\* response: unchanged, except that update_ghost_post returns the body of its
\* PUT with the keys lexical and html added to the first post, '' where the
\* post lacks them, every other key and post as received.
C15_ReturnKinds ==
    \A f \in Frames :
        (f.pc = "returned" /\ f.raised = "")
        => \/ ErrorSuccessOrBody(f)
           \/ (DOMAIN f.ret = {"name", "description", "args"} /\ f.ret.name = f.op)
           \/ /\ f.op = "update_ghost_post"
              /\ f.response # <<>>
              /\ LET body == f.response[1].body
                 IN  /\ body.json = "object" /\ body.key = "posts" /\ body.ents # <<>>
                     /\ DOMAIN f.ret = DOMAIN body
                     /\ f.ret.json = body.json /\ f.ret.key = body.key
                     /\ Len(f.ret.ents) = Len(body.ents)
                     /\ \A i \in 2..Len(body.ents) : f.ret.ents[i] = body.ents[i]
                     /\ DOMAIN f.ret.ents[1] = DOMAIN body.ents[1] \cup {"lexical", "html"}
                     /\ \A k \in DOMAIN body.ents[1] : f.ret.ents[1][k] = body.ents[1][k]
                     /\ \A k \in {"lexical", "html"} \ DOMAIN body.ents[1] :
                           f.ret.ents[1][k] = ""

\* update_ghost_post has returned the body of a PUT whose first post came with
\* html and without lexical, followed by a second post.
C15_Witness ==
    \E f \in Frames :
        /\ f.op = "update_ghost_post" /\ f.pc = "returned" /\ f.raised = ""
        /\ f.response # <<>>
        /\ f.response[1].body = JsonObject("posts", <<Entity2, Entity1>>)
        /\ f.ret # f.response[1].body

\* The latest attempt of the invocation failed: a transport exception, or a
\* response with a status raise_for_status raises for.
EndedInFailure(f) ==
    /\ f.pc = "returned"
    /\ f.last # <<>>
    /\ (f.last[1].kind # "response" \/ f.last[1].status >= 400)

\* The latest response the transport handed to the operation.
Handed(f) == IF f.response # <<>> THEN f.response ELSE f.get_response

\* C16 as stated: an invocation whose request ended in a failure has returned
\* an error envelope with a description and, when the failure was a response,
\* the text of that response, after one attempt or after the last retry.
C16_BodyTextAlways ==
    \A f \in Frames :
        EndedInFailure(f)
        => /\ f.raised = ""
           /\ IsErrorEnvelope(f.ret)
           /\ f.ret.error.desc # ""
           /\ f.last[1].kind = "response"
               => /\ f.ret.error.response # <<>>
                  /\ f.ret.error.response[1].status = f.last[1].status

\* C16, amended: an invocation whose request ended in a failure has returned
\* "Network or HTTP error - " with the description of the exception; the text
\* of the response follows exactly when the response was handed to the
\* operation and raise_for_status raised on it (a status that is not retried,
\* or any status of 400 or more answered to a POST); after a transport failure
\* and after the last retry of a retried status no text follows.
C16_BodyTextWhenCarried ==
    \A f \in Frames :
        EndedInFailure(f)
        => /\ f.raised = ""
           /\ IsErrorEnvelope(f.ret)
           /\ f.ret.error.prefix = "Network or HTTP error - "
           /\ IF Handed(f) # <<>> /\ Handed(f)[1].status >= 400
              THEN /\ f.ret.error.desc = "HTTPError"
                   /\ f.ret.error.response = <<[status |-> Handed(f)[1].status,
                                                text |-> Handed(f)[1].body]>>
                   /\ Handed(f)[1].status = f.last[1].status
              ELSE /\ f.ret.error.desc \in {"RetryError", "ConnectionError"}
                   /\ f.ret.error.response = <<>>
           /\ (f.last[1].kind = "response" /\ f.last[1].status = 404)
               => f.ret.error.response # <<>>
           /\ (f.last[1].kind = "response" /\ f.sent[Len(f.sent)].method = "POST")
               => f.ret.error.response # <<>>
           /\ (/\ f.last[1].kind = "response"
               /\ f.last[1].status \in {429, 500, 502, 503, 504}
               /\ f.sent[Len(f.sent)].method # "POST")
               => /\ f.ret.error.desc = "RetryError"
                  /\ AttemptsOf(f, f.sent[Len(f.sent)].method) = 4
           /\ f.last[1].kind # "response" => f.ret.error.desc = "ConnectionError"

\* A delete has returned after the fourth 503 to its request.
C16_Witness ==
    \E f \in Frames :
        /\ EndedInFailure(f)
        /\ f.op = "delete_ghost_page"
        /\ f.last[1].status = 503 /\ f.last[1].kind = "response"
        /\ Len(f.sent) = 4

-----------------------------------------------------------------------------
(* Concurrent updates.                                                     *)

\* The timestamp the invocation's GET read, "" before it read one.
ReadStamp(f) ==
    IF f.get_response # <<>> /\ f.get_response[1].status = 200
    THEN f.get_response[1].body.ents[1].updated_at ELSE ""

\* The service accepted a PUT of caller p.
Accepted(p) == \E i \in 1..Len(remote.writes) : remote.writes[i].by = p

\* The service answered caller p's PUT with a rejection.
Rejected(f) == f.response # <<>> /\ f.response[1].status = Collision

\* C17: with two update invocations of the same entity interleaved in any
\* order against a service that rejects a PUT whose updated_at is not the
\* entity's current timestamp (and gives the entity a new timestamp with
\* every PUT it accepts), two invocations whose GETs read the same timestamp
\* never both have a PUT accepted; a rejected invocation has returned an
\* error envelope, the rejected PUT is the last thing it sent, and it sent no
\* GET after a PUT.
C17_NoLostUpdate ==
    /\ \A p, q \in Procs :
          (p # q /\ ReadStamp(frame[p]) # "" /\ ReadStamp(frame[p]) = ReadStamp(frame[q]))
              => ~(Accepted(p) /\ Accepted(q))
    /\ \A p \in Procs :
          LET f == frame[p]
          IN  Rejected(f) =>
                /\ f.pc = "returned"
                /\ IsErrorEnvelope(f.ret)
                /\ f.sent[Len(f.sent)].method = "PUT"
                /\ f.last[1].status = Collision
                /\ \A i, j \in 1..Len(f.sent) :
                      (i < j /\ f.sent[i].method = "PUT") => f.sent[j].method = "PUT"

\* Both callers read the same timestamp; the PUT of one was accepted and it
\* returned the service's body, the PUT of the other was rejected and it
\* returned an error envelope.
C17_Witness ==
    /\ ReadStamp(frame[1]) = "ts1" /\ ReadStamp(frame[2]) = "ts1"
    /\ Accepted(1) /\ frame[1].pc = "returned" /\ ~IsErrorEnvelope(frame[1].ret)
    /\ Rejected(frame[2]) /\ frame[2].pc = "returned" /\ IsErrorEnvelope(frame[2].ret)
    /\ Len(remote.writes) = 1

-----------------------------------------------------------------------------
(* The operations the repository provides.                                 *)

Kinds == {"list", "create", "update", "delete"}

\* The repository provides an operation of kind k on resource r.
Provided(r, k) == \E op \in Ops : Kind(op) = k /\ Resource(op) = r

\* Every request an invocation sent has the method of its operation's kind
\* (an update its GET, then its PUT), and a POST carries the entity wrapped
\* under the name of the operation's resource.
MethodsAsKind ==
    \A p \in Procs :
        LET f == frame[p]
        IN  \A i \in Attempts(f) :
                LET q == f.sent[i]
                IN  /\ q.method = (CASE Kind(f.op) = "list" -> "GET"
                                     [] Kind(f.op) = "create" -> "POST"
                                     [] Kind(f.op) = "delete" -> "DELETE"
                                     [] Kind(f.op) = "update" ->
                                            IF i <= AttemptsOf(f, "GET")
                                            THEN "GET" ELSE "PUT")
                    /\ q.method \in {"POST", "PUT"} =>
                          /\ Len(q.json) = 1
                          /\ q.json[1].key = Resource(f.op)

\* C18 as claimed: for every resource among tags, pages and posts and every
\* kind among list, create, update and delete the repository provides an
\* operation, sending GET, POST (entity wrapped under the resource name), PUT
\* and DELETE.
C18_EveryResourceEveryKind ==
    /\ \A r \in Resources, k \in Kinds : Provided(r, k)
    /\ MethodsAsKind

\* C18 as amended: the repository provides an operation for every resource and
\* kind except a list of posts (eleven operations); their requests are GET for
\* a list, POST with the entity wrapped under the resource name for a create,
\* a GET followed by a PUT for an update, DELETE for a delete.
C18_AllButListPosts ==
    /\ \A r \in Resources, k \in Kinds : Provided(r, k) <=> <<r, k>> # <<"posts", "list">>
    /\ Cardinality(Ops) = 11
    /\ MethodsAsKind

\* A create of a post has sent its POST, the entity wrapped under "posts".
C18_Witness ==
    \E p \in Procs :
        /\ frame[p].op = "create_ghost_post"
        /\ frame[p].sent # <<>>
        /\ frame[p].sent[1].method = "POST"
        /\ frame[p].sent[1].json[1].key = "posts"
        /\ ~Provided("posts", "list")

-----------------------------------------------------------------------------
(* The target of the requests.                                             *)

\* base is text without its trailing '/' characters.
Stripped(base, text) ==
    /\ base = <<>> \/ base[Len(base)] # "/"
    /\ \E n \in 0..Len(text) :
          /\ base = SubSeq(text, 1, Len(text) - n)
          /\ \A i \in (Len(text) - n + 1)..Len(text) : text[i] = "/"

\* GHOST_API_URL when set, otherwise the operation's hardcoded fallback.
Configured(op) == IF environ = Unset THEN Fallback(op) ELSE environ[1]

\* /ghost/api/admin/{resource}[/{id}], the id for an update or a delete.
ResourcePath(f) ==
    "/ghost/api/admin/" \o Resource(f.op)
        \o (IF Kind(f.op) \in {"update", "delete"}
            THEN "/" \o f.args[Primary(f.op)].v ELSE "")

\* What the writes of posts append to the path.
SourceHtml(f, q) ==
    IF f.op = "create_ghost_post" \/ (f.op = "update_ghost_post" /\ q.method = "PUT")
    THEN "/?source=html" ELSE ""

\* C19 as claimed: every request of every operation targets
\* {base_url}/ghost/api/admin/{resource}[/{id}], base_url being GHOST_API_URL
\* when set (otherwise the hardcoded fallback) without its trailing '/'
\* characters, the id segment present exactly for updates and deletes and
\* equal to the id the caller passed.
C19_TargetsResourcePath ==
    \A p \in Procs :
        LET f == frame[p]
        IN  \A i \in Attempts(f) :
                /\ Stripped(f.sent[i].url.base, Configured(f.op))
                /\ f.sent[i].url.path = ResourcePath(f)

\* C19 as amended: as claimed, except that the POST of create_ghost_post and
\* the PUT of update_ghost_post append "/?source=html" to that path.
C19_TargetsResourcePathOrSourceHtml ==
    \A p \in Procs :
        LET f == frame[p]
        IN  \A i \in Attempts(f) :
                /\ Stripped(f.sent[i].url.base, Configured(f.op))
                /\ f.sent[i].url.path = ResourcePath(f) \o SourceHtml(f, f.sent[i])

\* With GHOST_API_URL set to "http://g//" an update of post "id1" has sent its
\* GET to http://g/ghost/api/admin/posts/id1 and its PUT to the same path
\* followed by "/?source=html".
C19_Witness ==
    /\ environ = SetTo(<<"h","t","t","p",":","/","/","g","/","/">>)
    /\ \E p \in Procs :
          LET f == frame[p]
          IN  /\ f.op = "update_ghost_post"
              /\ Len(f.sent) >= 2
              /\ f.sent[1].method = "GET"
              /\ f.sent[1].url = [base |-> <<"h","t","t","p",":","/","/","g">>,
                                  path |-> "/ghost/api/admin/posts/id1"]
              /\ f.sent[Len(f.sent)].method = "PUT"
              /\ f.sent[Len(f.sent)].url.path = "/ghost/api/admin/posts/id1/?source=html"

-----------------------------------------------------------------------------
(* The token builder as a function.                                        *)

-----------------------------------------------------------------------------
(* Termination.                                                            *)

\* An invocation is inside its try block.
Running(f) == f.pc \in {"try", "request"}

\* No invocation made more than RetryTotal + 1 attempts of one request: of its
\* only request, or of the GET and of the PUT of an update.
AttemptsBounded ==
    \A p \in Procs :
        LET f == frame[p]
        IN  /\ \A m \in SentMethods(f) : AttemptsOf(f, m) <= RetryTotal + 1
            /\ Kind(f.op) # "update" => Len(f.sent) <= RetryTotal + 1

\* C21: every invocation of every operation terminates, after at most 4
\* attempts of its request (at most 4 GET attempts plus 4 PUT attempts for an
\* update), whatever retryable statuses and transport failures the attempts
\* meet.
C21_Terminates ==
    /\ []AttemptsBounded
    /\ \A p \in Procs : Running(frame[p]) ~> (frame[p].pc = "returned")

\* An update has returned after four attempts of its GET and four of its PUT.
C21_Witness ==
    \E p \in Procs :
        /\ Kind(frame[p].op) = "update"
        /\ frame[p].pc = "returned"
        /\ AttemptsOf(frame[p], "GET") = 4
        /\ AttemptsOf(frame[p], "PUT") = 4

-----------------------------------------------------------------------------
(* The two kinds of failure.                                               *)

\* The invocation returned the envelope of one of its except clauses.
Caught(f) == f.pc = "returned" /\ IsErrorEnvelope(f.ret) /\ f.ret.error.prefix # ""

\* The exception classes that are requests.exceptions.RequestException.
RequestExceptions == {"HTTPError", "RetryError", "ConnectionError", "JSONDecodeError"}

\* C22 as claimed, in what it says of the first kind: the envelope of a failure
\* starts with "Network or HTTP error - " exactly when a request of the
\* invocation ended in a transport failure or a non-2xx status, and with
\* "Unexpected error - " otherwise.
C22_NetworkIffRequestFailed ==
    \A f \in Frames :
        Caught(f) =>
            /\ f.ret.error.prefix \in {"Network or HTTP error - ", "Unexpected error - "}
            /\ f.ret.error.prefix = "Network or HTTP error - " <=> EndedInFailure(f)

\* C22 as amended: the envelope starts with "Network or HTTP error - " exactly
\* when the exception is a RequestException: a transport failure, a status of
\* 400 or more, and also a body that is not JSON where requests raises its own
\* JSONDecodeError (requests >= 2.27; a plain ValueError before); every other
\* exception raised once the session exists yields "Unexpected error - "; no
\* request follows either (after a GET without updated_at no PUT is sent).  An
\* exception raised before the session exists yields no envelope: the finally
\* clause raises UnboundLocalError.
C22_NetworkIffRequestException ==
    \A f \in Frames :
        (f.tried /\ f.pc = "returned")
        => /\ f.raised # "" =>
                 f.raised = "UnboundLocalError" /\ f.session = "unbound" /\ f.sent = <<>>
           /\ EndedInFailure(f) =>
                 Caught(f) /\ f.ret.error.prefix = "Network or HTTP error - "
           /\ Caught(f) =>
                 /\ f.session = "closed"
                 /\ f.ret.error.prefix \in {"Network or HTTP error - ", "Unexpected error - "}
                 /\ f.ret.error.prefix = "Network or HTTP error - "
                       <=> f.ret.error.desc \in RequestExceptions
                 /\ f.ret.error.desc \in {"JSONDecodeError", "ValueError"} =>
                       /\ ~EndedInFailure(f)
                       /\ JsonRaises(Handed(f)[1].body)
                 /\ f.ret.error.desc \in {"KeyError", "AttributeError"} =>
                       /\ Kind(f.op) = "update"
                       /\ f.sent[Len(f.sent)].method = "GET"
                       /\ "PUT" \notin SentMethods(f)
                 /\ f.ret.error.desc = "TypeError" => f.sent = <<>> \/ "PUT" \notin SentMethods(f)

\* An update whose GET answered an entity without updated_at has returned
\* "Unexpected error - " and sent no PUT.
C22_Witness ==
    \E f \in Frames :
        /\ Kind(f.op) = "update"
        /\ Caught(f)
        /\ f.ret.error.prefix = "Unexpected error - "
        /\ f.ret.error.desc = "KeyError"
        /\ f.get_response[1].status = 200
        /\ SentMethods(f) = {"GET"}

-----------------------------------------------------------------------------
(* The query of a list.                                                    *)

Paging == {"page", "limit", "include"}

\* The filter parameter of the request is as the operation has it: absent in
\* list_ghost_tags, "status:<status>" in list_ghost_pages when status is true.
FilterAsStatus(f, q) ==
    IF f.op = "list_ghost_pages" /\ Truthy(f.args.status)
    THEN "filter" \in DOMAIN q.query /\ q.query["filter"] = "status:" \o f.args.status.v
    ELSE "filter" \notin DOMAIN q.query

\* C23 as claimed: every list request carries page, limit and include with the
\* caller's values (or the defaults of the def line); list_ghost_pages adds
\* filter = "status:<status>" exactly when status is non-empty, list_ghost_tags
\* never sends filter.
C23_AlwaysPageLimitInclude ==
    \A f \in Frames :
        Kind(f.op) = "list" =>
            \A i \in Attempts(f) :
                LET q == f.sent[i]
                IN  /\ \A k \in Paging : k \in DOMAIN q.query /\ q.query[k] = Fmt(f.args[k])
                    /\ FilterAsStatus(f, q)

\* C23 as amended: every list request carries each of page, limit and include
\* whose value is not None, with the caller's value or the default; one passed
\* as None is left out of the query; filter as claimed.
C23_PageLimitIncludeUnlessNone ==
    \A f \in Frames :
        Kind(f.op) = "list" =>
            \A i \in Attempts(f) :
                LET q == f.sent[i]
                IN  /\ DOMAIN q.query \ {"filter"} = {k \in Paging : f.args[k] # PyNone}
                    /\ \A k \in DOMAIN q.query \ {"filter"} : q.query[k] = Fmt(f.args[k])
                    /\ DOMAIN q.params[1] \ {"filter"} = Paging
                    /\ FilterAsStatus(f, q)

\* list_ghost_pages(page=None, status="draft") has sent its request: limit and
\* include at their defaults, filter "status:draft", no page.
C23_Witness ==
    \E f \in Frames :
        /\ f.op = "list_ghost_pages"
        /\ f.sent # <<>>
        /\ f.sent[1].query = [limit |-> "15", include |-> "tags,authors",
                              filter |-> "status:draft"]

-----------------------------------------------------------------------------
(* The GET of an update decides whether its PUT is sent.                   *)

\* The GET was answered 2xx with a decodable object holding, under the
\* resource name, a non-empty list whose first entity has updated_at.
GoodGet(f) ==
    /\ f.get_response # <<>>
    /\ Success(f.get_response[1].status)
    /\ LET body == f.get_response[1].body
       IN  /\ body.json = "object"
           /\ body.key = Resource(f.op)
           /\ Len(body.ents) > 0
           /\ "updated_at" \in DOMAIN body.ents[1]

\* C24: in every update invocation a PUT is sent only after a GET that
\* returned 2xx with a non-empty entity list whose first entity has
\* updated_at; when the GET ends with a status that is not 2xx, a transport
\* failure, an undecodable body or an entity without updated_at, the
\* invocation returns an error envelope and sends no PUT.
C24_PutOnlyAfterGoodGet ==
    \A f \in Frames :
        Kind(f.op) = "update" =>
            /\ (f.pc = "request" /\ f.req[1].method = "PUT") => GoodGet(f)
            /\ "PUT" \in SentMethods(f) => GoodGet(f)
            /\ (f.sent # <<>> /\ ~GoodGet(f)) =>
                  \/ f.pc = "request" /\ f.req[1].method = "GET"
                  \/ /\ f.pc = "returned"
                     /\ f.raised = ""
                     /\ IsErrorEnvelope(f.ret)
                     /\ EndedInFailure(f) => f.ret.error.prefix = "Network or HTTP error - "
                     /\ (f.get_response # <<>> /\ f.get_response[1].status = 200
                         /\ ~JsonRaises(f.get_response[1].body)) =>
                           f.ret.error.prefix # "Network or HTTP error - "

\* An update has returned an error envelope without a PUT after its GET was
\* answered 200 with an entity that has no updated_at.
C24_Witness ==
    \E f \in Frames :
          /\ Kind(f.op) = "update" /\ f.pc = "returned" /\ SentMethods(f) = {"GET"}
          /\ f.get_response # <<>> /\ f.get_response[1].status = 200
          /\ f.get_response[1].body = JsonObject(Resource(f.op), <<EntityNoStamp>>)
          /\ IsErrorEnvelope(f.ret)

-----------------------------------------------------------------------------
(* One reading of the timestamp per update.                                *)

\* The attempts of the invocation's PUT.
Puts(f) == {i \in Attempts(f) : f.sent[i].method = "PUT"}

\* C25: within one update invocation every PUT attempt, the automatic retries
\* after a retried status or a transport failure included, is the same request
\* and carries the updated_at of the one GET response the invocation read; no
\* GET is sent once a PUT has been sent.
C25_TimestampReadOnce ==
    \A f \in Frames :
        Kind(f.op) = "update" =>
            /\ \A i \in Puts(f) :
                  /\ f.sent[i].json[1].entity.updated_at
                        = PyStr(f.get_response[1].body.ents[1].updated_at)
                  /\ f.sent[i] = f.sent[AttemptsOf(f, "GET") + 1]
            /\ \A i \in Attempts(f) : i > AttemptsOf(f, "GET") => i \in Puts(f)
            /\ (f.pc = "request" /\ Puts(f) # {}) => f.req[1] = f.sent[Len(f.sent)]

\* An update read "ts2" with its GET and has made four attempts of its PUT.
C25_Witness ==
    \E f \in Frames :
        /\ Kind(f.op) = "update"
        /\ f.get_response # <<>>
        /\ f.get_response[1].body.ents = <<Entity2, Entity1>>
        /\ Cardinality(Puts(f)) = 4
        /\ f.sent[Len(f.sent)].json[1].entity.updated_at = PyStr("ts2")

-----------------------------------------------------------------------------
(* A create reaches the remote service at most once.                       *)

\* The latest attempt reached the remote service: it was answered, or it
\* failed while the response was read.
Reached(f) == f.last # <<>> /\ f.last[1].kind \in {"response", "read_error"}

\* C26: a create invocation sends its POST again only after an attempt that
\* failed to establish the connection; after any response (429 and 5xx
\* included) and after a failure while reading the response the invocation
\* has ended, so the body reaches the remote service at most once.
C26_PostDeliveredOnce ==
    \A f \in Frames :
        Kind(f.op) = "create" =>
            /\ \A i \in Attempts(f) : f.sent[i].method = "POST" /\ f.sent[i] = f.sent[1]
            /\ Reached(f) => f.pc = "returned"
            /\ (f.pc = "request" /\ f.sent # <<>>) => f.last[1].kind = "connect_error"
            /\ Len(f.sent) <= RetryTotal + 1

\* A create was answered 503 at its second attempt, after one connection
\* failure, and has returned without a third attempt.
C26_Witness ==
    \E f \in Frames :
        /\ Kind(f.op) = "create"
        /\ Len(f.sent) = 2
        /\ f.last[1].kind = "response" /\ f.last[1].status = 503
        /\ f.pc = "returned"

-----------------------------------------------------------------------------
(* The body of a create.                                                   *)

\* The argument is a list, or a text, that is not empty.
NonEmpty(x) == x.t \in {"list", "str"} /\ x.v # ""

\* The fields the claim has the create send.
ClaimedFields(f) ==
    CASE f.op = "create_ghost_post" ->
            {"title", "html", "status", "featured"}
                \cup {k \in {"tags"} : NonEmpty(f.args.tags)}
      [] f.op = "create_ghost_page" -> {"title", "html", "status", "featured"}
      [] f.op = "create_ghost_tag" ->
            {"name", "visibility"}
                \cup {k \in {"description", "accent_color"} : NonEmpty(f.args[k])}

\* C27: the body of every create request is one entity in an array under the
\* resource name; create_ghost_post and create_ghost_page always send title,
\* html (the content), status and featured; create_ghost_post sends tags
\* exactly when the tags argument is a non-empty list; create_ghost_tag always
\* sends name and visibility, and description and accent_color exactly when
\* each is a non-empty text; every field has the caller's value or the default.
C27_CreateFieldsByTruthiness ==
    \A f \in Frames :
        Kind(f.op) = "create" =>
            \A r \in {f.sent[i] : i \in Attempts(f)} \cup {f.req[i] : i \in 1..Len(f.req)} :
                /\ Len(r.json) = 1
                /\ r.json[1].key = Resource(f.op)
                /\ DOMAIN r.json[1].entity = ClaimedFields(f)
                /\ \A k \in ClaimedFields(f) :
                      r.json[1].entity[k] = f.args[IF k = "html" THEN "content" ELSE k]

\* create_ghost_post was called with an empty tag list and has sent its POST
\* without tags.
C27_Witness ==
    \E f \in Frames :
        /\ f.op = "create_ghost_post"
        /\ f.args.tags = PyList("")
        /\ f.sent # <<>>
        /\ DOMAIN f.sent[1].json[1].entity = {"title", "html", "status", "featured"}

-----------------------------------------------------------------------------
(* The copies of the token construction.                                   *)

\* C28: for the same key id, secret and clock second the inline construction
\* and create_token produce the same token (or raise the same exception), and
\* so do the copies of create_token among each other: the one of the update
\* operations, the one of delete_ghost_post.py and the one of
\* delete_ghost_tag.py.
C28_CopiesAgree ==
    \A i, j \in 1..Len(builds) :
        (/\ builds[i].builder # builds[j].builder
         /\ builds[i].key_id = builds[j].key_id
         /\ builds[i].key_secret = builds[j].key_secret
         /\ builds[i].now = builds[j].now)
            => /\ builds[i].raised = builds[j].raised
               /\ builds[i].token = builds[j].token

\* The inline code and then create_token of delete_ghost_tag.py have built a
\* token from the key id and the secret of the operations in the same second.
C28_Witness ==
    /\ Len(builds) = 2
    /\ builds[1].builder = "inline" /\ builds[2].builder = "create_token_delete_tag"
    /\ builds[1].key_id = AdminIdText /\ builds[2].key_id = AdminIdText
    /\ builds[1].key_secret = AdminSecret /\ builds[2].key_secret = AdminSecret
    /\ builds[1].now = 9700 /\ builds[2].now = 9700
    /\ Len(builds[1].token) > 100
    /\ builds[1].token = builds[2].token

-----------------------------------------------------------------------------
(* What standard output shows of the token.                                *)

\* The invocation has a request in flight or has sent one.
Performs(f) == f.pc = "request" \/ f.sent # <<>>

\* The lines of standard output that hold the request headers.
HeaderLines(f) == {i \in 1..Len(f.stdout) : "headers" \in DOMAIN f.stdout[i]}

\* The lines of standard output that hold the bare token.
TokenLines(f) == {i \in 1..Len(f.stdout) : "token" \in DOMAIN f.stdout[i]}

\* The headers with the Authorization value "Ghost <token>" of the invocation
\* are on standard output.
HeadersWritten(f) ==
    \E i \in HeaderLines(f) :
        f.stdout[i].headers.Authorization = [scheme |-> "Ghost", token |-> f.token[1]]

\* delete_ghost_tag, and only it, has written the bare token, as its first line.
BareTokenWritten(f) ==
    IF f.op = "delete_ghost_tag"
    THEN TokenLines(f) = {1} /\ f.stdout[1].token = f.token[1]
    ELSE TokenLines(f) = {}

\* C29 as stated: whenever an invocation has its first request in flight, or
\* has sent a request, the request headers with the Authorization value
\* "Ghost <token>" are on standard output, and for delete_ghost_tag the bare
\* token as well.
C29_HeadersBeforeFirstRequest ==
    \A f \in Frames :
        Performs(f) => HeadersWritten(f) /\ BareTokenWritten(f)

\* C29: in every list, create and delete invocation the request headers with
\* the Authorization value "Ghost <token>" are on standard output when the
\* first request is in flight (delete_ghost_tag has written the bare token
\* before them); an update invocation has written neither headers nor token
\* while its GET is in flight, and has written the headers exactly when its GET
\* returned 2xx with an entity that has updated_at, which is before its PUT.
C29_HeadersBeforeRequestOrPut ==
    \A f \in Frames :
        Performs(f) =>
            /\ BareTokenWritten(f)
            /\ Kind(f.op) # "update" => HeadersWritten(f)
            /\ Kind(f.op) = "update" =>
                  /\ HeadersWritten(f) <=> GoodGet(f)
                  /\ (f.pc = "request" /\ f.req[1].method = "GET") => HeaderLines(f) = {}
                  /\ (f.pc = "request" /\ f.req[1].method = "PUT") => HeadersWritten(f)
                  /\ "PUT" \in SentMethods(f) => HeadersWritten(f)

\* An update has sent its GET, was answered 404 and has returned; standard
\* output holds the address of the GET and nothing of the token.
C29_Witness ==
    \E f \in Frames :
        /\ Kind(f.op) = "update"
        /\ f.pc = "returned"
        /\ SentMethods(f) = {"GET"}
        /\ f.get_response # <<>>
        /\ f.get_response[1].status = 404
        /\ Len(f.stdout) = 1
        /\ DOMAIN f.stdout[1] = {"url"}

====
